---- MODULE Spec2Model ----
(***************************************************************************)
(* Model of the pybfbc2stats FESL / Theater clients (client.py).           *)
(*                                                                         *)
(* One client object talks to one server over one connection.  The server  *)
(* puts packets on the connection (inbox), MaxPackets of them in all;      *)
(* every public client operation                                           *)
(* is one action that runs the whole method, consuming packets from the    *)
(* inbox and recording, in call.io, every step it took (ids minted,        *)
(* packets written and read, steps recorded).  A read that finds the       *)
(* inbox empty ends in TimeoutError, a failed send in ConnectionError.     *)
(***************************************************************************)
EXTENDS Integers, Sequences, FiniteSets, TLC

VARIABLES
    family,           \* "fesl" (FeslClient) or "theater" (TheaterClient)
    track_steps,      \* Client.track_steps
    transaction_id,   \* Client.transaction_id
    completed_steps,  \* Client.completed_steps: step -> cached response packet
    is_connected,     \* Connection.is_connected
    inbox,            \* packets sent by the server and not yet read
    served,           \* number of packets the server has sent so far
    maxSent,          \* largest id carried by a request of an earlier operation
    minted,           \* number of get_transaction_id calls so far
    call,             \* the operation performed last, with its pre-state and log
    tasks             \* the coroutines running on an async client, none otherwise

vars == <<family, track_steps, transaction_id, completed_steps, is_connected,
          inbox, served, maxSent, minted, call, tasks>>

----------------------------------------------------------------------------
(* Bounds *)

MaxPackets == 3      \* packets the server sends in all
MaxTid == 3          \* cap on the transaction-id counter
MaxSendFail == 1     \* the n-th send of an operation may fail, n <= MaxSendFail

(* Program constants *)

FRAGMENT_SIZE == 8096

----------------------------------------------------------------------------
(* Python values as far as the client distinguishes them: a payload value  *)
(* read from the wire is bytes, a literal in client.py is str, and bytes   *)
(* never equal str.                                                        *)

PyNone == [ty |-> "none", v |-> ""]
PyBytes(s) == [ty |-> "bytes", v |-> s]
PyStr(s) == [ty |-> "str", v |-> s]

(* Payload.get: the raw value stored under key, or None *)
get(body, key) ==
    IF key \in DOMAIN body THEN PyBytes(body[key]) ELSE PyNone

(* Payload.get_str: the value decoded to str (the model's values carry no  *)
(* quotes or percent escapes, so unquoting leaves the text as it is)       *)
get_str(body, key) ==
    IF key \in DOMAIN body THEN PyStr(body[key]) ELSE PyNone

(* Payload.get_int with a default *)
get_int(body, key, default) ==
    IF key \in DOMAIN body THEN body[key] ELSE default

----------------------------------------------------------------------------
(* Packets: type tag (header bytes 0-3), discriminator (FESL byte 4,       *)
(* Theater bytes 4-7), FESL header transaction id (bytes 5-7) and the body *)
(* as its key/value lines.                                                 *)

Packet(tag, disc, tid, body) ==
    [tag |-> tag, disc |-> disc, tid |-> tid, body |-> body]

NoPacket == Packet("none", "none", 0, [nil |-> ""])

(* FeslPacket.set_transmission_type *)
FeslDisc(transmission_type) ==
    CASE transmission_type = "Ping" -> "0x00"
      [] transmission_type = "SinglePacketResponse" -> "0x80"
      [] transmission_type = "MultiPacketResponse" -> "0xB0"
      [] transmission_type = "SinglePacketRequest" -> "0xC0"
      [] transmission_type = "MultiPacketRequest" -> "0xF0"

(* TheaterPacket.set_transmission_type *)
TheaterDisc(transmission_type) ==
    CASE transmission_type = "Request" -> "@"
      [] transmission_type = "OKResponse" -> "ok"

(* FeslPacket.build: the id goes to the header, 0 when none is given *)
FeslBuild(tag, body, transmission_type, tid) ==
    Packet(tag, FeslDisc(transmission_type), tid, body)

(* TheaterPacket.build: set_tid appends a TID line to the body *)
TheaterBuild(tag, body, transmission_type, tid) ==
    Packet(tag, TheaterDisc(transmission_type), 0,
           [k \in DOMAIN body \cup {"TID"} |-> IF k = "TID" THEN tid ELSE body[k]])

(* FeslPacket.get_tid / TheaterPacket.get_tid: Theater takes the TID line  *)
(* of the body, and 0 when there is none or its value is not alphanumeric  *)
(* (a negative number is the model's non-alphanumeric value)               *)
get_tid(fam, p) ==
    IF fam = "fesl" THEN p.tid
    ELSE IF "TID" \in DOMAIN p.body /\ p.body["TID"] >= 0 THEN p.body["TID"] ELSE 0

HeaderStartsWith(p, tag) == p.tag = tag

----------------------------------------------------------------------------
(* Request and reply builders *)

build_hello_packet(tid) ==
    FeslBuild("fsys", [TXN |-> "Hello", fragmentSize |-> FRAGMENT_SIZE,
                       clientType |-> "server"],
              "SinglePacketRequest", tid)

(* a MemCheck reply built as a request *)
build_memcheck_packet_as_request ==
    FeslBuild("fsys", [TXN |-> "MemCheck", result |-> ""], "SinglePacketRequest", 0)

build_memcheck_packet ==
    FeslBuild("fsys", [TXN |-> "MemCheck", result |-> ""], "SinglePacketResponse", 0)

build_login_packet(tid) ==
    FeslBuild("acct", [TXN |-> "Login", returnEncryptedInfo |-> 0],
              "SinglePacketRequest", tid)

build_logout_packet(tid) ==
    FeslBuild("fsys", [TXN |-> "Goodbye", reason |-> "GOODBYE_CLIENT_NORMAL"],
              "SinglePacketRequest", tid)

build_ping_packet ==
    FeslBuild("fsys", [TXN |-> "Ping"], "SinglePacketResponse", 0)

(* legacy namespaces use LookupUserInfo / SearchOwners *)
build_user_lookup_packet(tid, legacy) ==
    FeslBuild("acct",
              [TXN |-> IF legacy THEN "LookupUserInfo" ELSE "NuLookupUserInfo"],
              "SinglePacketRequest", tid)

build_search_packet(tid, legacy) ==
    FeslBuild("acct",
              [TXN |-> IF legacy THEN "SearchOwners" ELSE "NuSearchOwners",
               retrieveUserIds |-> IF legacy THEN 1 ELSE 0],
              "SinglePacketRequest", tid)

build_leaderboard_query_packet(tid) ==
    FeslBuild("rank", [TXN |-> "GetTopNAndStats", ownerType |-> 1],
              "SinglePacketRequest", tid)

build_dogtag_query_packet(tid) ==
    FeslBuild("recp", [TXN |-> "GetRecordAsMap", recordName |-> "dogtags"],
              "SinglePacketRequest", tid)

CeilDiv(a, b) == (a + b - 1) \div b

(* b64encode of n bytes: 4 characters per started group of 3 bytes, the    *)
(* last group padded with '='                                              *)
B64Len(n) == 4 * CeilDiv(n, 3)
B64Pad(n) == (3 - (n % 3)) % 3

(* quote_from_bytes turns every '+' and '=' of the base64 text into three  *)
(* characters                                                              *)
QuotedLen(n, plus) == B64Len(n) + 2 * (B64Pad(n) + plus)

(* build_stats_query_packets that numbers the chunks with ids of their own *)
build_stats_query_packets_own_ids(tid, len, plus) ==
    LET enc == B64Len(len + 1) + 2 * (B64Pad(len + 1) + plus)
        n == IF len <= FRAGMENT_SIZE THEN 1 ELSE CeilDiv(enc, FRAGMENT_SIZE)
    IN [i \in 1..n |->
          FeslBuild("rank", [TXN |-> "GetStats", ownerType |-> 1],
                    IF n = 1 THEN "SinglePacketRequest" ELSE "MultiPacketRequest",
                    tid + i - 1)]

(* build_stats_query_packets for a serialized GetStats payload of len      *)
(* bytes whose base64 text holds plus '+' characters: one 0xC0 packet, or  *)
(* one 0xF0 packet per FRAGMENT_SIZE characters of the quoted text         *)
build_stats_query_packets(tid, len, plus) ==
    IF len <= FRAGMENT_SIZE
    THEN << FeslBuild("rank", [TXN |-> "GetStats", ownerType |-> 1],
                      "SinglePacketRequest", tid) >>
    ELSE LET enc == QuotedLen(len + 1, plus)
             n == CeilDiv(enc, FRAGMENT_SIZE)
         IN [i \in 1..n |->
               FeslBuild("rank",
                         [size |-> B64Len(len + 1),
                          data |-> IF i < n THEN FRAGMENT_SIZE
                                   ELSE enc - (n - 1) * FRAGMENT_SIZE],
                         "MultiPacketRequest", tid)]

build_conn_packet(tid) ==
    TheaterBuild("CONN", [PROT |-> 2, VERS |-> "1.0"], "Request", tid)

build_user_packet(tid) ==
    TheaterBuild("USER", [SKU |-> 125170, LKEY |-> "lkey", NAME |-> ""], "Request", tid)

build_theater_ping_packet ==
    TheaterBuild("PING", [x \in {} |-> 0], "Request", 0)

build_llst_packet(tid) ==
    TheaterBuild("LLST", ("FILTER-FAV-ONLY" :> 0), "Request", tid)

build_glst_packet(tid, lid) ==
    TheaterBuild("GLST", [LID |-> lid, COUNT |-> -1], "Request", tid)

build_gdat_packet(tid, kwargs) ==
    TheaterBuild("GDAT", kwargs, "Request", tid)

----------------------------------------------------------------------------
(* The log of an operation: one event per id minted, packet written or     *)
(* read, wrapped_read entered or left, step recorded or cache cleared.     *)

Ev(kind, pkt, n, ok, step) ==
    [ev |-> kind, pkt |-> pkt, n |-> n, ok |-> ok, step |-> step]

MintEv(n) == Ev("mint", NoPacket, n, TRUE, "")
WriteEv(p, ok) == Ev("write", p, 0, ok, "")
ReadEv(p) == Ev("read", p, 0, TRUE, "")
EnterEv(tid) == Ev("wrapped_read", NoPacket, tid, TRUE, "")
ReturnEv(p, tid) == Ev("return", p, tid, TRUE, "")
StepEv(step, p) == Ev("step", p, 0, TRUE, step)
ClearEv == Ev("clear", NoPacket, 0, TRUE, "")

(* The running operation: the client's fields, the connection, the log,    *)
(* the exception raised so far (err), the packet and the data returned by  *)
(* the last call, and the send that is going to fail (sendfail, 0 = none). *)

NoSteps == [s \in {} |-> NoPacket]

Ok(c) == c.err = "none"

Raise(c, e) == [c EXCEPT !.err = e, !.ret = NoPacket]

(* completed_steps[step] = packet *)
RecordStep(c, step, p) ==
    IF ~Ok(c) THEN c
    ELSE [c EXCEPT !.steps = [s \in DOMAIN c.steps \cup {step} |->
                                IF s = step THEN p ELSE c.steps[s]],
                   !.io = Append(@, StepEv(step, p))]

(* get_transaction_id that hands out the counter without incrementing it  *)
get_transaction_id_stuck(c) ==
    IF ~Ok(c) THEN c ELSE [c EXCEPT !.io = Append(@, MintEv(c.tid))]

(* Client.get_transaction_id: the id returned is the new counter value *)
get_transaction_id(c) ==
    IF ~Ok(c) THEN c
    ELSE [c EXCEPT !.tid = c.tid + 1, !.io = Append(@, MintEv(c.tid + 1))]

(* Connection.connect as called by write and read: nothing when the       *)
(* connection is marked connected, a new socket otherwise                  *)
connection_connect(c) ==
    IF c.conn THEN c ELSE [c EXCEPT !.conn = TRUE, !.sockets = @ + 1]

(* a write that marks the connection as not connected when the send fails *)
connection_write_closes_on_failure(c, p) ==
    IF ~Ok(c) THEN c
    ELSE IF c.sendfail = 1
    THEN [Raise(connection_connect(c), "ConnectionError") EXCEPT
             !.conn = FALSE, !.sendfail = 0, !.io = Append(@, WriteEv(p, FALSE))]
    ELSE [connection_connect(c) EXCEPT
                   !.sendfail = IF @ > 1 THEN @ - 1 ELSE 0,
                   !.io = Append(@, WriteEv(p, TRUE))]

(* Connection.write: connect on first use, then send the packet; a failed  *)
(* send raises ConnectionError and leaves the connection as it is          *)
connection_write(c, p) ==
    IF ~Ok(c) THEN c
    ELSE IF c.sendfail = 1
    THEN [Raise(connection_connect(c), "ConnectionError") EXCEPT
             !.sendfail = 0, !.io = Append(@, WriteEv(p, FALSE))]
    ELSE [connection_connect(c) EXCEPT
                   !.sendfail = IF @ > 1 THEN @ - 1 ELSE 0,
                   !.io = Append(@, WriteEv(p, TRUE))]

(* Connection.read: connect on first use, then receive one whole packet;   *)
(* the receive fails when it is the one that is going to fail (recvfail,   *)
(* 0 = none), with ConnectionError from the socket or with Error from the  *)
(* validation of what was received (recverr), and times out when the       *)
(* server has sent nothing                                                 *)
connection_read(c) ==
    IF ~Ok(c) THEN c
    ELSE IF c.recvfail = 1
    THEN [Raise(connection_connect(c), c.recverr) EXCEPT !.recvfail = 0]
    ELSE IF c.inbox = << >>
    THEN Raise(connection_connect(c), "TimeoutError")
    ELSE [connection_connect(c) EXCEPT
                   !.recvfail = IF @ > 1 THEN @ - 1 ELSE 0,
                   !.ret = Head(c.inbox), !.inbox = Tail(@),
                   !.io = Append(@, ReadEv(Head(c.inbox)))]

(* FeslClient.memcheck, FeslClient.ping, TheaterClient.ping *)
memcheck(c) == connection_write(c, build_memcheck_packet)

ping(c) == connection_write(c, build_ping_packet)

theater_ping(c) == connection_write(c, build_theater_ping_packet)

(* FeslClient.is_auto_respond_packet: the raw TXN value (bytes) is         *)
(* compared with the str literals 'MemCheck' and 'Ping'.                   *)
(* TheaterClient.is_auto_respond_packet: the header starts with PING.      *)
(* The result is the handler, "none" when the packet is a data packet.     *)
fesl_is_auto_respond_packet(p) ==
    LET txn == get(p.body, "TXN")
    IN IF txn = PyStr("MemCheck") THEN "memcheck"
       ELSE IF txn = PyStr("Ping") THEN "ping"
       ELSE "none"

theater_is_auto_respond_packet(p) ==
    IF HeaderStartsWith(p, "PING") THEN "theater_ping" ELSE "none"

is_auto_respond_packet(fam, p) ==
    IF fam = "fesl" THEN fesl_is_auto_respond_packet(p)
    ELSE theater_is_auto_respond_packet(p)

CallHandler(c, handler) ==
    CASE handler = "memcheck" -> memcheck(c)
      [] handler = "ping" -> ping(c)
      [] handler = "theater_ping" -> theater_ping(c)

(* The element of a one-element set.  "The({ e : x \in {call} })" is e with   *)
(* x naming the value of the call, which is computed once: the statement    *)
(* "x = call" followed by the rest of the body.  Successive statements      *)
(* nest, so a body reads from its last binding line upwards.                *)
The(S) == CHOOSE r \in S : TRUE

(* a wrapped_read that returns the first data packet whatever its id *)
RECURSIVE wrapped_read_unfiltered(_, _, _)
wrapped_read_unfiltered(fam, c, tid) ==
    IF ~Ok(c) THEN c
    ELSE The({
            IF ~Ok(c1) THEN c1
            ELSE IF is_auto_respond_packet(fam, c1.ret) # "none"
            THEN The({
                    wrapped_read_unfiltered(fam, c2, tid)
                    : c2 \in {CallHandler(c1, is_auto_respond_packet(fam, c1.ret))} })
            ELSE [c1 EXCEPT !.io = Append(@, ReturnEv(c1.ret, tid))]
            : c1 \in {connection_read([c EXCEPT !.io = Append(@, EnterEv(tid))])} })

(* Client.wrapped_read *)
RECURSIVE wrapped_read(_, _, _)
wrapped_read(fam, c, tid) ==
    IF ~Ok(c) THEN c
    ELSE The({
            IF ~Ok(c1) THEN c1
            ELSE IF is_auto_respond_packet(fam, c1.ret) # "none"
            THEN The({
                    wrapped_read(fam, c2, tid)
                    : c2 \in {CallHandler(c1, is_auto_respond_packet(fam, c1.ret))} })
            ELSE IF get_tid(fam, c1.ret) < tid
            THEN wrapped_read(fam, c1, tid)
            ELSE [c1 EXCEPT !.io = Append(@, ReturnEv(c1.ret, tid))]
            : c1 \in {connection_read([c EXCEPT !.io = Append(@, EnterEv(tid))])} })

----------------------------------------------------------------------------
(* FESL session steps *)

(* a step check that never finds the step completed *)
StepNeverDone(c, step) == FALSE

StepDone(c, step) == track_steps /\ step \in DOMAIN c.steps

StepMissing(c, step) == track_steps /\ step \notin DOMAIN c.steps

(* a hello that answers the initial MemCheck before it records the step *)
hello_replies_first(c) ==
    IF ~Ok(c) THEN c
    ELSE IF track_steps /\ "hello" \in DOMAIN c.steps
    THEN [c EXCEPT !.ret = c.steps["hello"]]
    ELSE The({ The({ The({ The({ The({ The({
            IF Ok(c6) THEN [c6 EXCEPT !.ret = c3.ret] ELSE c6
            : c6 \in {RecordStep(c5, "hello", c3.ret)} })
            : c5 \in {memcheck(c4)} })
            : c4 \in {connection_read(c3)} })
            : c3 \in {connection_read(c2)} })
            : c2 \in {connection_write(c1, build_hello_packet(c1.tid))} })
            : c1 \in {get_transaction_id(c)} })

(* FeslClient.hello *)
hello(c) ==
    IF ~Ok(c) THEN c
    ELSE IF StepDone(c, "hello") THEN [c EXCEPT !.ret = c.steps["hello"]]
    ELSE The({ The({ The({ The({ The({ The({
            IF Ok(c6) THEN [c6 EXCEPT !.ret = c3.ret] ELSE c6
            : c6 \in {memcheck(c5)} })
            : c5 \in {RecordStep(c4, "hello", c3.ret)} })
            : c4 \in {connection_read(c3)} })
            : c3 \in {connection_read(c2)} })
            : c2 \in {connection_write(c1, build_hello_packet(c1.tid))} })
            : c1 \in {get_transaction_id(c)} })

(* a login check that accepts every response *)
accept_any_login_response(response) == TRUE

(* FeslClient.is_valid_login_response *)
is_valid_login_response(response) == get(response.body, "lkey") # PyNone

(* FeslClient.login *)
login(c) ==
    IF ~Ok(c) THEN c
    ELSE IF StepDone(c, "login") THEN [c EXCEPT !.ret = c.steps["login"]]
    ELSE The({ The({ The({ The({
            IF ~Ok(c3) THEN c3
            ELSE IF ~is_valid_login_response(c3.ret) THEN Raise(c3, "AuthError")
            ELSE [RecordStep(c3, "login", c3.ret) EXCEPT !.ret = c3.ret]
            : c3 \in {wrapped_read("fesl", c2, c1.tid)} })
            : c2 \in {connection_write(c1, build_login_packet(c1.tid))} })
            : c1 \in {get_transaction_id(c0)} })
            : c0 \in {IF StepMissing(c, "hello") THEN hello(c) ELSE c} })

(* a logout that keeps the completed steps *)
KeepSteps(c) == c

(* completed_steps.clear() *)
ClearSteps(c) ==
    IF ~Ok(c) THEN c
    ELSE [c EXCEPT !.steps = NoSteps, !.io = Append(@, ClearEv)]

(* a logout that looks at the login step only, not at step tracking *)
logout_of_any_login(c) ==
    IF ~Ok(c) THEN c
    ELSE IF "login" \in DOMAIN c.steps
    THEN The({ The({ The({
            wrapped_read("fesl", c3, c1.tid)
            : c3 \in {ClearSteps(c2)} })
            : c2 \in {connection_write(c1, build_logout_packet(c1.tid))} })
            : c1 \in {get_transaction_id(c)} })
    ELSE [c EXCEPT !.ret = NoPacket]

(* FeslClient.logout *)
logout(c) ==
    IF ~Ok(c) THEN c
    ELSE IF StepDone(c, "login")
    THEN The({ The({ The({
            wrapped_read("fesl", c3, c1.tid)
            : c3 \in {ClearSteps(c2)} })
            : c2 \in {connection_write(c1, build_logout_packet(c1.tid))} })
            : c1 \in {get_transaction_id(c)} })
    ELSE [c EXCEPT !.ret = NoPacket]

----------------------------------------------------------------------------
(* FESL responses *)

(* b64decode(unquote_to_bytes(data)) for the data values the model's       *)
(* server sends: "QUI%3D" is base64 "QUI=", the bytes "AB"; "QQA%3D" is    *)
(* base64 "QQA=", the bytes "A\x00"                                        *)
DecodeData(data) ==
    CASE data = "QUI%3D" -> <<65, 66>>
      [] data = "QQA%3D" -> <<65, 0>>

GetRecordTxns == {"GetRecord", "GetRecordAsMap"}

(* FeslClient.process_response_packet: the error to raise ("none" when     *)
(* there is none), the data of the packet and whether it is the last one   *)
process_response_packet(p) ==
    LET error_code == get_int(p.body, "errorCode", -1)
        method == get_str(p.body, "TXN")
        Result(e, d, l) == [err |-> e, data |-> d, last |-> l]
    IN IF error_code # -1
       THEN Result(
              IF error_code = 21 THEN "ParameterError"
              ELSE IF error_code = 101 /\ method = PyStr("NuLookupUserInfo")
              THEN "PlayerNotFoundError"
              ELSE IF error_code = 101 /\ method = PyStr("NuSearchOwners")
              THEN "SearchError"
              ELSE IF error_code = 104 /\ method = PyStr("NuSearchOwners")
              THEN "SearchError"
              ELSE IF error_code = 223 /\ method = PyStr("SearchOwners")
              THEN "SearchError"
              ELSE IF error_code = 5000 /\ method = PyNone THEN "AttributeError"
              ELSE IF error_code = 5000 /\ method.v \in GetRecordTxns
              THEN "RecordNotFoundError"
              ELSE "Error",
              << >>, TRUE)
       ELSE IF p.disc \notin {"0x80", "0xB0"}
       THEN Result("Error", << >>, TRUE)
       ELSE IF p.disc = "0xB0" /\ get(p.body, "data") = PyNone
       THEN Result("AttributeError", << >>, TRUE)
       ELSE IF p.disc = "0xB0"
       THEN LET data == DecodeData(get(p.body, "data").v)
                last_packet == data[Len(data)] = 0
            IN IF last_packet
               THEN Result("none", <<[pkt |-> p, bytes |-> SubSeq(data, 1, Len(data) - 1)]>>, TRUE)
               ELSE Result("none", <<[pkt |-> p, bytes |-> data]>>, FALSE)
       ELSE Result("none", <<[pkt |-> p, bytes |-> << >>]>>, TRUE)

(* a get_response that takes the first packet for the whole response *)
get_response_first_packet(c, tid) ==
    IF ~Ok(c) THEN c
    ELSE The({
            IF ~Ok(c1) THEN c1
            ELSE The({
                    IF r.err # "none" THEN Raise(c1, r.err)
                    ELSE [c1 EXCEPT !.out = @ \o r.data]
                    : r \in {process_response_packet(c1.ret)} })
            : c1 \in {wrapped_read("fesl", c, tid)} })

(* FeslClient.get_response: the loop, response being c.out *)
RECURSIVE get_response_loop(_, _)
get_response_loop(c, tid) ==
    IF ~Ok(c) THEN c
    ELSE The({
            IF ~Ok(c1) THEN c1
            ELSE The({
                    IF r.err # "none" THEN Raise(c1, r.err)
                    ELSE IF r.last THEN [c1 EXCEPT !.out = @ \o r.data]
                    ELSE get_response_loop([c1 EXCEPT !.out = @ \o r.data], tid)
                    : r \in {process_response_packet(c1.ret)} })
            : c1 \in {wrapped_read("fesl", c, tid)} })

get_response(c, tid) ==
    IF ~Ok(c) THEN c ELSE get_response_loop([c EXCEPT !.out = << >>], tid)

----------------------------------------------------------------------------
(* FESL queries *)

(* a query that does not log in first *)
LoginSkipped(c) == c

LoginFirst(c) == IF StepMissing(c, "login") THEN login(c) ELSE c

(* a loop that writes the chunks last to first *)
RECURSIVE WriteAllReversed(_, _)
WriteAllReversed(c, packets) ==
    IF packets = << >> THEN c
    ELSE The({
            WriteAllReversed(c1, SubSeq(packets, 1, Len(packets) - 1))
            : c1 \in {connection_write(c, packets[Len(packets)])} })

(* for chunk_packet in chunk_packets: self.connection.write(chunk_packet) *)
RECURSIVE WriteAll(_, _)
WriteAll(c, packets) ==
    IF packets = << >> THEN c
    ELSE The({
            WriteAll(c1, Tail(packets))
            : c1 \in {connection_write(c, Head(packets))} })

(* FeslClient.lookup_user_identifiers *)
lookup_user_identifiers(c, legacy) ==
    The({ The({ The({
       get_response(c2, c1.tid)
       : c2 \in {connection_write(c1, build_user_lookup_packet(c1.tid, legacy))} })
       : c1 \in {get_transaction_id(c0)} })
       : c0 \in {LoginFirst(c)} })

(* FeslClient.search_name *)
search_name(c, legacy) ==
    The({ The({ The({
       get_response(c2, c1.tid)
       : c2 \in {connection_write(c1, build_search_packet(c1.tid, legacy))} })
       : c1 \in {get_transaction_id(c0)} })
       : c0 \in {LoginFirst(c)} })

(* FeslClient.get_stats *)
get_stats(c, len, plus) ==
    The({ The({ The({
       get_response(c2, c1.tid)
       : c2 \in {WriteAll(c1, build_stats_query_packets(c1.tid, len, plus))} })
       : c1 \in {get_transaction_id(c0)} })
       : c0 \in {LoginFirst(c)} })

(* FeslClient.get_leaderboard *)
get_leaderboard(c) ==
    The({ The({ The({
       get_response(c2, c1.tid)
       : c2 \in {connection_write(c1, build_leaderboard_query_packet(c1.tid))} })
       : c1 \in {get_transaction_id(c0)} })
       : c0 \in {LoginFirst(c)} })

(* FeslClient.get_dogtags *)
get_dogtags(c) ==
    The({ The({ The({
       get_response(c2, c1.tid)
       : c2 \in {connection_write(c1, build_dogtag_query_packet(c1.tid))} })
       : c1 \in {get_transaction_id(c0)} })
       : c0 \in {LoginFirst(c)} })

----------------------------------------------------------------------------
(* Theater session steps and queries *)

(* a connect that reads its response with wrapped_read *)
connect_with_wrapped_read(c) ==
    IF ~Ok(c) THEN c
    ELSE IF StepDone(c, "conn") THEN [c EXCEPT !.ret = c.steps["conn"]]
    ELSE The({ The({ The({
            RecordStep(c3, "conn", c3.ret)
            : c3 \in {wrapped_read("theater", c2, c1.tid)} })
            : c2 \in {connection_write(c1, build_conn_packet(c1.tid))} })
            : c1 \in {get_transaction_id(c)} })

(* TheaterClient.connect *)
connect(c) ==
    IF ~Ok(c) THEN c
    ELSE IF StepDone(c, "conn") THEN [c EXCEPT !.ret = c.steps["conn"]]
    ELSE The({ The({ The({
            RecordStep(c3, "conn", c3.ret)
            : c3 \in {connection_read(c2)} })
            : c2 \in {connection_write(c1, build_conn_packet(c1.tid))} })
            : c1 \in {get_transaction_id(c)} })

(* TheaterClient.is_valid_authentication_response *)
is_valid_authentication_response(response) == get(response.body, "NAME") # PyNone

(* TheaterClient.authenticate *)
authenticate(c) ==
    IF ~Ok(c) THEN c
    ELSE IF StepDone(c, "user") THEN [c EXCEPT !.ret = c.steps["user"]]
    ELSE The({ The({ The({ The({
            IF ~Ok(c3) THEN c3
            ELSE IF ~is_valid_authentication_response(c3.ret)
            THEN Raise(c3, "AuthError")
            ELSE [RecordStep(c3, "user", c3.ret) EXCEPT !.ret = c3.ret]
            : c3 \in {connection_read(c2)} })
            : c2 \in {connection_write(c1, build_user_packet(c1.tid))} })
            : c1 \in {get_transaction_id(c0)} })
            : c0 \in {IF StepMissing(c, "conn") THEN connect(c) ELSE c} })

AuthenticateFirst(c) == IF StepMissing(c, "user") THEN authenticate(c) ELSE c

(* an is_error_response that takes "no game" for "not found" and back *)
is_error_response_swapped(response) ==
    IF response.tag = "GLST" /\ response.disc = "nrom" THEN "LobbyNotFoundError"
    ELSE IF response.tag = "GDAT" /\ response.disc = "ngam" THEN "PlayerNotFoundError"
    ELSE IF response.tag = "GDAT" /\ response.disc = "ntfn" THEN "ServerNotFoundError"
    ELSE IF response.disc = "bpar" THEN "ParameterError"
    ELSE "none"

(* TheaterClient.is_error_response: the error to raise, "none" if none *)
is_error_response(response) ==
    IF response.tag = "GLST" /\ response.disc = "nrom" THEN "LobbyNotFoundError"
    ELSE IF response.tag = "GDAT" /\ response.disc = "ngam" THEN "ServerNotFoundError"
    ELSE IF response.tag = "GDAT" /\ response.disc = "ntfn" THEN "PlayerNotFoundError"
    ELSE IF response.disc = "bpar" THEN "ParameterError"
    ELSE "none"

(* a loop that reads one packet more than announced *)
RECURSIVE ReadEachAndOneMore(_, _, _)
ReadEachAndOneMore(c, tid, n) ==
    IF n < 0 \/ ~Ok(c) THEN c
    ELSE The({
            IF ~Ok(c1) THEN c1
            ELSE ReadEachAndOneMore([c1 EXCEPT !.out = Append(@, c1.ret)], tid, n - 1)
            : c1 \in {wrapped_read("theater", c, tid)} })

(* for i in range(n): wrapped_read(tid), the packets appended to c.out *)
RECURSIVE ReadEach(_, _, _)
ReadEach(c, tid, n) ==
    IF n <= 0 \/ ~Ok(c) THEN c
    ELSE The({
            IF ~Ok(c1) THEN c1
            ELSE ReadEach([c1 EXCEPT !.out = Append(@, c1.ret)], tid, n - 1)
            : c1 \in {wrapped_read("theater", c, tid)} })

(* TheaterClient.get_lobbies *)
get_lobbies(c) ==
    The({ The({ The({ The({
       IF ~Ok(c3) THEN c3
       ELSE ReadEach([c3 EXCEPT !.out = << >>], c1.tid,
                     get_int(c3.ret.body, "NUM-LOBBIES", 0))
       : c3 \in {wrapped_read("theater", c2, c1.tid)} })
       : c2 \in {connection_write(c1, build_llst_packet(c1.tid))} })
       : c1 \in {get_transaction_id(c0)} })
       : c0 \in {AuthenticateFirst(c)} })

(* TheaterClient.get_servers *)
get_servers(c, lobby_id) ==
    The({ The({ The({ The({
       IF ~Ok(c3) THEN c3
       ELSE IF is_error_response(c3.ret) # "none"
       THEN Raise(c3, is_error_response(c3.ret))
       ELSE ReadEach([c3 EXCEPT !.out = << >>], c1.tid,
                     get_int(c3.ret.body, "NUM-GAMES", 0))
       : c3 \in {wrapped_read("theater", c2, c1.tid)} })
       : c2 \in {connection_write(c1, build_glst_packet(c1.tid, lobby_id))} })
       : c1 \in {get_transaction_id(c0)} })
       : c0 \in {AuthenticateFirst(c)} })

(* a get_gdat that reads the players right after the GDAT packet *)
get_gdat_without_gdet(c, kwargs) ==
    The({ The({ The({ The({
       IF ~Ok(c3) THEN c3
       ELSE IF is_error_response(c3.ret) # "none"
       THEN Raise(c3, is_error_response(c3.ret))
       ELSE ReadEach([c3 EXCEPT !.out = <<c3.ret>>], c1.tid,
                     get_int(c3.ret.body, "AP", 0))
       : c3 \in {wrapped_read("theater", c2, c1.tid)} })
       : c2 \in {connection_write(c1, build_gdat_packet(c1.tid, kwargs))} })
       : c1 \in {get_transaction_id(c0)} })
       : c0 \in {AuthenticateFirst(c)} })

(* TheaterClient.get_gdat; the result is <<gdat, gdet, pdat, ...>> *)
get_gdat(c, kwargs) ==
    The({ The({ The({ The({
       IF ~Ok(c3) THEN c3
       ELSE IF is_error_response(c3.ret) # "none"
       THEN Raise(c3, is_error_response(c3.ret))
       ELSE The({
               IF ~Ok(c4) THEN c4
               ELSE ReadEach([c4 EXCEPT !.out = <<c3.ret, c4.ret>>], c1.tid,
                             get_int(c3.ret.body, "AP", 0))
               : c4 \in {wrapped_read("theater", c3, c1.tid)} })
       : c3 \in {wrapped_read("theater", c2, c1.tid)} })
       : c2 \in {connection_write(c1, build_gdat_packet(c1.tid, kwargs))} })
       : c1 \in {get_transaction_id(c0)} })
       : c0 \in {AuthenticateFirst(c)} })

----------------------------------------------------------------------------
(* The server.  While the client is idle it may send a prompt or a         *)
(* response; counted from the client's last request, the id of a response  *)
(* is that of the second request to come: the Login of a login() that      *)
(* says Hello first, a later id than the one awaited by an operation that  *)
(* sends one request, an earlier one for whatever is requested after.      *)

MemCheckPrompt(tid) == Packet("fsys", "0x80", tid, [TXN |-> "MemCheck", type |-> 0])
PingPrompt == Packet("fsys", "0x00", 0, [TXN |-> "Ping"])
LoginResponse(tid) == Packet("acct", "0x80", tid, [TXN |-> "Login", lkey |-> "W5NyZzx"])
LoginFailure(tid) ==
    Packet("acct", "0x80", tid,
           [TXN |-> "Login", errorCode |-> 122, localizedMessage |-> "mismatch"])

FeslServerPackets(t) ==
    {MemCheckPrompt(0), PingPrompt, LoginResponse(t + 2), LoginFailure(t + 2)}

TheaterPrompt == Packet("PING", "ok", 0, [x \in {} |-> 0])
UserResponse(tid) == Packet("USER", "ok", 0, [TID |-> tid, NAME |-> "player"])
LobbyList(tid, n) == Packet("LLST", "ok", 0, ("TID" :> tid) @@ ("NUM-LOBBIES" :> n))

TheaterServerPackets(t) ==
    {TheaterPrompt, UserResponse(t + 2), LobbyList(t + 2, 1)}

ServerPackets(fam, t) ==
    IF fam = "fesl" THEN FeslServerPackets(t) ELSE TheaterServerPackets(t)

----------------------------------------------------------------------------
(* The state machine *)

(* the arguments of an operation that the record keeps; none for most *)
NoArgs == [nil |-> 0]

NoCall ==
    [op |-> "none", args |-> NoArgs,
     pre |-> [tid |-> 0, steps |-> NoSteps, inbox |-> << >>, maxSent |-> 0,
              conn |-> FALSE],
     io |-> << >>, err |-> "none", ret |-> NoPacket, out |-> << >>, sockets |-> 0]

(* a client of the synchronous classes runs no coroutine *)
NoTasks == << >>

Init ==
    /\ tasks = NoTasks
    /\ family \in {"fesl", "theater"}
    /\ track_steps \in BOOLEAN
    /\ transaction_id = 0
    /\ completed_steps = NoSteps
    /\ is_connected = FALSE
    /\ inbox = << >>
    /\ served = 0
    /\ maxSent = 0
    /\ minted = 0
    /\ call = NoCall

Idle == call.op = "none"

(* the operation's view of the client when it starts *)
Start(sendfail) ==
    [tid |-> transaction_id, steps |-> completed_steps, conn |-> is_connected,
     inbox |-> inbox, io |-> << >>, err |-> "none", ret |-> NoPacket,
     out |-> << >>, sendfail |-> sendfail, recvfail |-> 0,
     recverr |-> "ConnectionError", sockets |-> 0]

IsReply(p) ==
    p \in {build_memcheck_packet, build_ping_packet, build_theater_ping_packet}

IsRequestWrite(e) == e.ev = "write" /\ ~IsReply(e.pkt)

Max(a, b) == IF a >= b THEN a ELSE b

RECURSIVE MaxRequestTid(_, _)
MaxRequestTid(io, fam) ==
    IF io = << >> THEN 0
    ELSE Max(IF IsRequestWrite(Head(io)) THEN get_tid(fam, Head(io).pkt) ELSE 0,
             MaxRequestTid(Tail(io), fam))

(* the operation's effect on the client, and its record *)
FinishArgs(op, args, c) ==
    /\ Idle
    /\ c.tid <= MaxTid
    /\ transaction_id' = c.tid
    /\ completed_steps' = c.steps
    /\ is_connected' = c.conn
    /\ inbox' = c.inbox
    /\ maxSent' = Max(maxSent, MaxRequestTid(c.io, family))
    /\ minted' = minted + Len(SelectSeq(c.io, LAMBDA e : e.ev = "mint"))
    /\ call' = [op |-> op, args |-> args,
                pre |-> [tid |-> transaction_id, steps |-> completed_steps,
                         inbox |-> inbox, maxSent |-> maxSent, conn |-> is_connected],
                io |-> c.io, err |-> c.err, ret |-> c.ret, out |-> c.out,
                sockets |-> c.sockets]
    /\ UNCHANGED <<tasks, family, track_steps, served>>

Finish(op, c) == FinishArgs(op, NoArgs, c)

SendFails == 0..MaxSendFail

(* the caller takes the result of the operation *)
Return ==
    /\ ~Idle
    /\ call' = NoCall
    /\ UNCHANGED <<tasks, family, track_steps, transaction_id, completed_steps,
                   is_connected, inbox, served, maxSent, minted>>

ServerSend ==
    /\ Idle
    /\ served < MaxPackets
    /\ \E p \in ServerPackets(family, transaction_id) : inbox' = Append(inbox, p)
    /\ served' = served + 1
    /\ call' = NoCall
    /\ UNCHANGED <<tasks, family, track_steps, transaction_id, completed_steps,
                   is_connected, maxSent, minted>>

WrappedRead ==
    /\ \E tid \in {0, transaction_id}, sf \in SendFails :
          Finish("wrapped_read", wrapped_read(family, Start(sf), tid))

Hello ==
    /\ family = "fesl"
    /\ \E sf \in SendFails : Finish("hello", hello(Start(sf)))

Memcheck ==
    /\ family = "fesl"
    /\ \E sf \in SendFails : Finish("memcheck", memcheck(Start(sf)))

Login ==
    /\ family = "fesl"
    /\ \E sf \in SendFails : Finish("login", login(Start(sf)))

Logout ==
    /\ family = "fesl"
    /\ \E sf \in SendFails : Finish("logout", logout(Start(sf)))

Ping ==
    /\ \E sf \in SendFails :
          Finish("ping", IF family = "fesl" THEN ping(Start(sf))
                         ELSE theater_ping(Start(sf)))

LookupUserIdentifiers ==
    /\ family = "fesl"
    /\ \E sf \in SendFails, legacy \in BOOLEAN :
          Finish("lookup_user_identifiers", lookup_user_identifiers(Start(sf), legacy))

SearchName ==
    /\ family = "fesl"
    /\ \E sf \in SendFails, legacy \in BOOLEAN :
          Finish("search_name", search_name(Start(sf), legacy))

StatsPayloads == {[len |-> 100, plus |-> 0], [len |-> 8097, plus |-> 1]}

GetStats ==
    /\ family = "fesl"
    /\ \E sf \in SendFails, q \in StatsPayloads :
          Finish("get_stats", get_stats(Start(sf), q.len, q.plus))

GetLeaderboard ==
    /\ family = "fesl"
    /\ \E sf \in SendFails : Finish("get_leaderboard", get_leaderboard(Start(sf)))

GetDogtags ==
    /\ family = "fesl"
    /\ \E sf \in SendFails : Finish("get_dogtags", get_dogtags(Start(sf)))

Connect ==
    /\ family = "theater"
    /\ \E sf \in SendFails : Finish("connect", connect(Start(sf)))

Authenticate ==
    /\ family = "theater"
    /\ \E sf \in SendFails : Finish("authenticate", authenticate(Start(sf)))

GetLobbies ==
    /\ family = "theater"
    /\ \E sf \in SendFails : Finish("get_lobbies", get_lobbies(Start(sf)))

GetServers ==
    /\ family = "theater"
    /\ \E sf \in SendFails : Finish("get_servers", get_servers(Start(sf), 257))

GdatQueries == {[LID |-> 257, GID |-> 1], [UID |-> 7]}

GetGdat ==
    /\ family = "theater"
    /\ \E sf \in SendFails, kwargs \in GdatQueries :
          Finish("get_gdat", get_gdat(Start(sf), kwargs))

Next ==
    \/ Return
    \/ ServerSend
    \/ WrappedRead
    \/ Hello
    \/ Memcheck
    \/ Login
    \/ Logout
    \/ Ping
    \/ LookupUserIdentifiers
    \/ SearchName
    \/ GetStats
    \/ GetLeaderboard
    \/ GetDogtags
    \/ Connect
    \/ Authenticate
    \/ GetLobbies
    \/ GetServers
    \/ GetGdat

Spec == Init /\ [][Next]_vars

----------------------------------------------------------------------------
(* Observations on the record of the operation performed last *)

Writes(io) == SelectSeq(io, LAMBDA e : e.ev = "write")

Requests(io) == SelectSeq(io, IsRequestWrite)

Mints(io) == SelectSeq(io, LAMBDA e : e.ev = "mint")

(* an auto-respond prompt as the protocol defines it: a FESL packet whose  *)
(* payload TXN is MemCheck or Ping, a Theater packet whose header starts   *)
(* with PING                                                               *)
IsPrompt(fam, p) ==
    IF fam = "fesl"
    THEN "TXN" \in DOMAIN p.body /\ p.body["TXN"] \in {"MemCheck", "Ping"}
    ELSE p.tag = "PING"

(* event i is the connection.read() of a wrapped_read invocation *)
ReadInWrappedRead(io, i) ==
    i > 1 /\ io[i].ev = "read" /\ io[i - 1].ev = "wrapped_read"

(* the id wrapped_read was waiting for when it read event i *)
Wanted(io, i) == io[i - 1].n

(* the first read or return after event i, Len(io) + 1 if there is none *)
NextStop(io, i) ==
    LET later == {j \in DOMAIN io : j > i /\ io[j].ev \in {"read", "return"}}
    IN IF later = {} THEN Len(io) + 1
       ELSE CHOOSE j \in later : \A k \in later : j <= k

(* the number of reply writes strictly between events i and j *)
ReplyWritesBetween(io, i, j) ==
    Cardinality({k \in DOMAIN io :
                   i < k /\ k < j /\ io[k].ev = "write" /\ IsReply(io[k].pkt)})

(* the id handed out last before event i *)
LastMint(io, i) ==
    LET earlier == {j \in DOMAIN io : j < i /\ io[j].ev = "mint"}
    IN IF earlier = {} THEN 0
       ELSE io[CHOOSE j \in earlier : \A k \in earlier : k <= j].n

FeslQueries ==
    {"lookup_user_identifiers", "search_name", "get_stats", "get_leaderboard",
     "get_dogtags"}

TheaterQueries == {"get_lobbies", "get_servers", "get_gdat"}

Queries == FeslQueries \cup TheaterQueries

(* the session step a query needs: FeslStep.login, TheaterStep.user *)
SessionStep == IF family = "fesl" THEN "login" ELSE "user"

----------------------------------------------------------------------------
(* C1: in wrapped_read, whenever the packet just read is an auto-respond   *)
(* prompt (FESL: TXN is MemCheck or Ping, Theater: header PING), whatever  *)
(* its transaction id, the responder is invoked (a reply is written) and,  *)
(* the reply sent, wrapped_read reads again; the packet returned to the    *)
(* caller is never an auto-respond prompt.                                 *)
C1_PromptsAreAnswered ==
    ~Idle =>
      /\ \A i \in DOMAIN call.io :
            (ReadInWrappedRead(call.io, i) /\ IsPrompt(family, call.io[i].pkt)) =>
               /\ i + 1 <= Len(call.io)
               /\ call.io[i + 1].ev = "write"
               /\ IsReply(call.io[i + 1].pkt)
               /\ call.io[i + 1].ok =>
                    (i + 2 <= Len(call.io) /\ call.io[i + 2].ev = "wrapped_read")
      /\ \A i \in DOMAIN call.io :
            call.io[i].ev = "return" => ~IsPrompt(family, call.io[i].pkt)

(* C2: wrapped_read(tid) returns only a packet whose id is not less than   *)
(* tid; a non-prompt packet with a smaller id is dropped without a write;  *)
(* the packet returned is the first non-prompt packet read whose id is not *)
(* less than tid, be it equal to tid or greater.                           *)
C2_TidFilter ==
    ~Idle =>
      /\ \A i \in DOMAIN call.io :
            call.io[i].ev = "return" =>
               /\ ~IsPrompt(family, call.io[i].pkt)
               /\ get_tid(family, call.io[i].pkt) >= call.io[i].n
               /\ ReadInWrappedRead(call.io, i - 1)
               /\ call.io[i - 1].pkt = call.io[i].pkt
      /\ \A i \in DOMAIN call.io :
            (ReadInWrappedRead(call.io, i) /\ ~IsPrompt(family, call.io[i].pkt)) =>
               IF get_tid(family, call.io[i].pkt) < Wanted(call.io, i)
               THEN i + 1 <= Len(call.io) => call.io[i + 1].ev = "wrapped_read"
               ELSE /\ i + 1 <= Len(call.io)
                    /\ call.io[i + 1] = ReturnEv(call.io[i].pkt, Wanted(call.io, i))

(* C3: every MemCheck or Ping prompt read by wrapped_read causes exactly   *)
(* one reply write, made before the next packet is read and before a       *)
(* packet is returned; over the call, the number of reply writes made by   *)
(* wrapped_read equals the number of prompts it read.                      *)
C3_OneReplyPerPrompt ==
    ~Idle =>
      /\ \A i \in DOMAIN call.io :
            (ReadInWrappedRead(call.io, i) /\ IsPrompt(family, call.io[i].pkt)) =>
               ReplyWritesBetween(call.io, i, NextStop(call.io, i)) = 1
      /\ Cardinality({i \in DOMAIN call.io :
                        ReadInWrappedRead(call.io, i)
                        /\ IsPrompt(family, call.io[i].pkt)})
         = Cardinality({k \in DOMAIN call.io :
                          /\ call.io[k].ev = "write"
                          /\ IsReply(call.io[k].pkt)
                          /\ ReadInWrappedRead(call.io, k - 1)})

(* C4: the transaction-id counter starts at 0, changes only by +1 in       *)
(* get_transaction_id (it always equals the number of ids handed out, the  *)
(* k-th id handed out during an operation being the counter before the     *)
(* operation plus k) and is never reset, whether the operation is a        *)
(* logout or ends in an error; hence the ids carried by the request        *)
(* packets of an operation are greater than the ids of all requests of     *)
(* earlier operations, and do not decrease within the operation.           *)
C4_CounterMonotonic ==
    /\ transaction_id = minted
    /\ maxSent <= transaction_id
    /\ ~Idle =>
         /\ transaction_id = call.pre.tid + Len(Mints(call.io))
         /\ transaction_id >= call.pre.tid
         /\ \A k \in DOMAIN Mints(call.io) : Mints(call.io)[k].n = call.pre.tid + k
         /\ \A i \in DOMAIN Requests(call.io) :
               /\ get_tid(family, Requests(call.io)[i].pkt) > call.pre.maxSent
               /\ get_tid(family, Requests(call.io)[i].pkt) > call.pre.tid
               /\ \A j \in DOMAIN Requests(call.io) :
                     j < i => get_tid(family, Requests(call.io)[j].pkt)
                                <= get_tid(family, Requests(call.io)[i].pkt)

(* a logout that sent its Goodbye, or an operation that ended in an error, *)
(* after an earlier request, has left the counter above that request's id  *)
C4_Witness ==
    /\ ~Idle
    /\ call.pre.maxSent >= 2
    /\ \/ call.op = "logout" /\ Len(Requests(call.io)) = 1
       \/ call.err # "none" /\ Len(Requests(call.io)) >= 1
    /\ transaction_id = call.pre.tid + 1

(* C5 as stated: every call of a query operation, in every session state,  *)
(* increases the counter by exactly one and all request packets written    *)
(* during the call carry that one id.                                      *)
C5_SingleIdPerCall ==
    (~Idle /\ call.op \in Queries) =>
       /\ transaction_id = call.pre.tid + 1
       /\ \A i \in DOMAIN Requests(call.io) :
             get_tid(family, Requests(call.io)[i].pkt) = call.pre.tid + 1

(* C5 amended: a query operation called with step tracking disabled, or    *)
(* with its session step (FESL login, Theater user) already recorded,      *)
(* mints exactly one id and every request packet it writes carries that    *)
(* id.  Called with tracking enabled and the step missing, it first runs   *)
(* the missing steps, each of which mints an id of its own, so the call    *)
(* mints up to three ids; every request packet carries the id minted last  *)
(* before it was written.                                                  *)
C5_SingleIdWhenSessionReady ==
    (~Idle /\ call.op \in Queries) =>
       /\ (~track_steps \/ SessionStep \in DOMAIN call.pre.steps) =>
             /\ transaction_id = call.pre.tid + 1
             /\ Mints(call.io) = <<MintEv(call.pre.tid + 1)>>
             /\ \A i \in DOMAIN Requests(call.io) :
                   get_tid(family, Requests(call.io)[i].pkt) = call.pre.tid + 1
       /\ Len(Mints(call.io)) \in 1..3
       /\ \A i \in DOMAIN call.io :
             IsRequestWrite(call.io[i]) =>
                get_tid(family, call.io[i].pkt) = LastMint(call.io, i)

(* a chunked stats query on a logged-in client: several request packets,   *)
(* one id                                                                  *)
C5_Witness ==
    /\ ~Idle
    /\ call.op = "get_stats"
    /\ track_steps
    /\ "login" \in DOMAIN call.pre.steps
    /\ Len(Requests(call.io)) >= 2
    /\ \A i \in DOMAIN Requests(call.io) : Requests(call.io)[i].ok

(* C6: memcheck() and ping() mint no id and leave the counter and the      *)
(* completed-steps map as they were, writing one reply packet; every       *)
(* auto-respond reply, sent by memcheck()/ping() directly, by hello() or   *)
(* from wrapped_read, carries transaction id 0: FESL replies have          *)
(* discriminator 0x80 and header id 0, the MemCheck body being             *)
(* TXN=MemCheck with an empty result, Theater ping replies carry TID=0.    *)
C6_RepliesMintNothing ==
    ~Idle =>
      /\ call.op \in {"memcheck", "ping"} =>
           /\ transaction_id = call.pre.tid
           /\ completed_steps = call.pre.steps
           /\ Len(call.io) = 1
           /\ call.io[1].ev = "write"
           /\ call.op = "memcheck" => call.io[1].pkt.body["TXN"] = "MemCheck"
           /\ (call.op = "ping" /\ family = "fesl") =>
                 call.io[1].pkt.body["TXN"] = "Ping"
           /\ (call.op = "ping" /\ family = "theater") =>
                 call.io[1].pkt.tag = "PING"
      /\ \A i \in DOMAIN call.io :
            (/\ call.io[i].ev = "write"
             /\ \/ call.op \in {"memcheck", "ping"}
                \/ i > 1 /\ call.io[i - 1].ev \in {"read", "step"}) =>
               /\ get_tid(family, call.io[i].pkt) = 0
               /\ LastMint(call.io, i) = LastMint(call.io, i - 1)
               /\ IF family = "fesl"
                  THEN /\ call.io[i].pkt.disc = "0x80"
                       /\ call.io[i].pkt.tid = 0
                       /\ call.io[i].pkt.tag = "fsys"
                       /\ call.io[i].pkt.body["TXN"] = "MemCheck" =>
                            call.io[i].pkt.body = [TXN |-> "MemCheck", result |-> ""]
                  ELSE /\ call.io[i].pkt.tag = "PING"
                       /\ call.io[i].pkt.body["TID"] = 0

(* memcheck() on a client whose counter has left 0 *)
C6_Witness ==
    /\ ~Idle
    /\ call.op = "memcheck"
    /\ call.pre.tid >= 1
    /\ call.io = <<WriteEv(build_memcheck_packet, TRUE)>>

(* the step an operation completes *)
StepOps == {"hello", "login", "connect", "authenticate"}

StepOf(op) ==
    CASE op = "hello" -> "hello"
      [] op = "login" -> "login"
      [] op = "connect" -> "conn"
      [] op = "authenticate" -> "user"

(* C7: with step tracking enabled, hello, login, connect or authenticate   *)
(* called when its step is already recorded reads and writes nothing,      *)
(* leaves the counter, the completed-steps map and the connection as they  *)
(* were, and returns the response packet cached for the step.              *)
C7_CompletedStepIsCached ==
    (/\ ~Idle
     /\ track_steps
     /\ call.op \in StepOps
     /\ StepOf(call.op) \in DOMAIN call.pre.steps) =>
       /\ call.io = << >>
       /\ call.err = "none"
       /\ transaction_id = call.pre.tid
       /\ completed_steps = call.pre.steps
       /\ inbox = call.pre.inbox
       /\ call.ret = call.pre.steps[StepOf(call.op)]

(* login() or authenticate() re-entered after some request was sent, with  *)
(* a packet waiting on the connection                                      *)
C7_Witness ==
    /\ ~Idle
    /\ track_steps
    /\ call.op \in {"login", "authenticate"}
    /\ StepOf(call.op) \in DOMAIN call.pre.steps
    /\ call.pre.tid >= 2
    /\ call.pre.inbox # << >>
    /\ call.ret = call.pre.steps[StepOf(call.op)]

(* the requests of a query operation itself *)
OwnRequestTags == {"acct", "rank", "recp", "LLST", "GLST", "GDAT"}

IsOwnRequest(e) ==
    /\ IsRequestWrite(e)
    /\ e.pkt.tag \in OwnRequestTags
    /\ "TXN" \in DOMAIN e.pkt.body => e.pkt.body["TXN"] # "Login"

(* C8: with step tracking enabled, a query on a fresh client writes, as    *)
(* far as it gets, FESL: the Hello request, then the MemCheck reply, then  *)
(* the Login request and only then its own request(s); Theater: CONN, then *)
(* USER, then its own request.  No query request is written before the     *)
(* login (FESL) or user (Theater) step is recorded as completed.           *)
C8_PredecessorsFirst ==
    (~Idle /\ track_steps /\ call.op \in Queries) =>
       /\ \A i \in DOMAIN call.io :
             IsOwnRequest(call.io[i]) =>
                \/ SessionStep \in DOMAIN call.pre.steps
                \/ \E j \in 1..(i - 1) :
                      call.io[j].ev = "step" /\ call.io[j].step = SessionStep
       /\ call.pre.steps = NoSteps =>
             LET r == Requests(call.io)
                 w == Writes(call.io)
             IN IF family = "fesl"
                THEN /\ Len(r) >= 1 => r[1].pkt = build_hello_packet(call.pre.tid + 1)
                     /\ Len(w) >= 2 => w[2].pkt = build_memcheck_packet
                     /\ Len(r) >= 2 => r[2].pkt = build_login_packet(call.pre.tid + 2)
                     /\ Len(r) >= 2 => Len(w) >= 3 /\ w[3] = r[2]
                     /\ \A i \in DOMAIN r :
                           i >= 3 => /\ IsOwnRequest(r[i])
                                     /\ get_tid(family, r[i].pkt) = call.pre.tid + 3
                ELSE /\ Len(r) >= 1 => r[1].pkt = build_conn_packet(call.pre.tid + 1)
                     /\ Len(r) >= 2 => r[2].pkt = build_user_packet(call.pre.tid + 2)
                     /\ \A i \in DOMAIN r :
                           i >= 3 => /\ IsOwnRequest(r[i])
                                     /\ get_tid(family, r[i].pkt) = call.pre.tid + 3

(* a FESL query on a fresh client that got as far as its own request *)
C8_Witness ==
    /\ ~Idle
    /\ track_steps
    /\ call.op \in FeslQueries
    /\ call.pre.steps = NoSteps
    /\ Len(Requests(call.io)) >= 3
    /\ Len(Writes(call.io)) >= 4
    /\ "login" \in DOMAIN completed_steps

(* the request packets login() would write if it were called now *)
NextLoginRequests == Requests(login(Start(0)).io)

----------------------------------------------------------------------------
(* The FESL handshake on its own: the server sends hello responses and     *)
(* initial MemChecks, MaxHelloPackets of them in all, the caller says      *)
(* hello.                                                                  *)

MaxHelloPackets == 4

HelloResponse(tid) ==
    Packet("fsys", "0x80", tid, [TXN |-> "Hello", theaterPort |-> 18395])

HelloTraffic(t) == {HelloResponse(t + 1), MemCheckPrompt(0)}

HelloInit ==
    /\ Init
    /\ family = "fesl"

HelloSend ==
    /\ Idle
    /\ served < MaxHelloPackets
    /\ \E p \in HelloTraffic(transaction_id) : inbox' = Append(inbox, p)
    /\ served' = served + 1
    /\ call' = NoCall
    /\ UNCHANGED <<tasks, family, track_steps, transaction_id, completed_steps,
                   is_connected, maxSent, minted>>

(* hello() sends twice: either send may be the one that fails *)
HelloSendFails == {0, 1, 2}

HelloCall ==
    /\ family = "fesl"
    /\ \E sf \in HelloSendFails : Finish("hello", hello(Start(sf)))

HelloNext ==
    \/ Return
    \/ HelloSend
    \/ HelloCall

SpecHello == HelloInit /\ [][HelloNext]_vars

(* the I/O of a hello() that is not answered from the cache, run to the    *)
(* end on a connection holding the packets first and second                *)
HelloIO(tid, first, second) ==
    << MintEv(tid), WriteEv(build_hello_packet(tid), TRUE), ReadEv(first),
       ReadEv(second), StepEv("hello", first), WriteEv(build_memcheck_packet, TRUE) >>

(* C11: a hello() that is not answered from the cache performs, as far as  *)
(* it gets, exactly this I/O: it mints one id, writes the Hello request,   *)
(* reads one packet, reads one more packet, records the first packet read  *)
(* as the hello step and writes one MemCheck reply; it stops early only on *)
(* a failed send or a missing packet.  The step is recorded before the     *)
(* reply is written, so it is recorded even when that write fails; the     *)
(* call returns the first packet and leaves the second one discarded.      *)
C11_HelloSequence ==
    (/\ ~Idle
     /\ call.op = "hello"
     /\ ~(track_steps /\ "hello" \in DOMAIN call.pre.steps)) =>
       LET n == Len(call.io)
           first == IF Len(call.pre.inbox) >= 1 THEN call.pre.inbox[1] ELSE NoPacket
           second == IF Len(call.pre.inbox) >= 2 THEN call.pre.inbox[2] ELSE NoPacket
           full == HelloIO(call.pre.tid + 1, first, second)
       IN /\ n \in 2..6
          /\ \A i \in 1..n :
                IF i = n /\ call.err = "ConnectionError"
                THEN call.io[i] = [full[i] EXCEPT !.ok = FALSE]
                ELSE call.io[i] = full[i]
          /\ call.err = "none" =>
                /\ call.io = full
                /\ call.ret = first
                /\ inbox = Tail(Tail(call.pre.inbox))
          /\ call.err = "ConnectionError" => n \in {2, 6}
          /\ call.err = "TimeoutError" => n = 2 + Len(call.pre.inbox)
          /\ call.err \in {"none", "ConnectionError", "TimeoutError"}
          /\ n < 5 => completed_steps = call.pre.steps
          /\ n >= 5 => /\ "hello" \in DOMAIN completed_steps
                       /\ completed_steps["hello"] = first

(* a hello() that read the hello response and the initial MemCheck and     *)
(* recorded the step, and whose MemCheck reply could not be sent           *)
C11_Witness ==
    /\ ~Idle
    /\ call.op = "hello"
    /\ call.err = "ConnectionError"
    /\ Len(call.io) = 6
    /\ call.io[3].pkt = HelloResponse(call.pre.tid + 1)
    /\ call.io[4].pkt = MemCheckPrompt(0)
    /\ completed_steps = [s \in {"hello"} |-> HelloResponse(call.pre.tid + 1)]

----------------------------------------------------------------------------
(* A client without step tracking that only queries stats.  The server     *)
(* answers the query to come (id transaction_id + 1) with a single-packet  *)
(* response or with fragments of a multi-packet response, and may still    *)
(* send packets of the transaction before it (id transaction_id), which    *)
(* the caller of that transaction no longer waits for.                     *)

MaxStatsPackets == 3
MaxStatsCalls == 2

StatsSingle(tid) == Packet("rank", "0x80", tid, [TXN |-> "GetStats"])
StatsPart(tid) == Packet("rank", "0xB0", tid, [size |-> 8, data |-> "QUI%3D"])
StatsLast(tid) == Packet("rank", "0xB0", tid, [size |-> 8, data |-> "QQA%3D"])

StatsTraffic(t) ==
    {StatsSingle(t + 1), StatsPart(t + 1), StatsLast(t + 1),
     StatsSingle(t), StatsPart(t)}

(* serialized GetStats payloads: length in bytes, '+' characters of the    *)
(* base64 text.  8096 is the largest sent whole; 8097 makes two chunks;    *)
(* 12143 bytes and their \x00 make 16192 base64 characters, two full       *)
(* chunks, and a third chunk when a '+' is quoted                          *)
StatsQueries ==
    {[len |-> FRAGMENT_SIZE, plus |-> 3], [len |-> FRAGMENT_SIZE + 1, plus |-> 0],
     [len |-> 12143, plus |-> 0], [len |-> 12143, plus |-> 1]}

StatsInit ==
    /\ Init
    /\ family = "fesl"
    /\ track_steps = FALSE

StatsSend ==
    /\ Idle
    /\ served < MaxStatsPackets
    /\ \E p \in StatsTraffic(transaction_id) : inbox' = Append(inbox, p)
    /\ served' = served + 1
    /\ call' = NoCall
    /\ UNCHANGED <<tasks, family, track_steps, transaction_id, completed_steps,
                   is_connected, maxSent, minted>>

(* get_stats() sends up to three chunks: any of them may be the one that fails *)
StatsSendFails == {0, 1, 2, 3}

StatsCall ==
    /\ transaction_id < MaxStatsCalls
    /\ \E sf \in StatsSendFails, q \in StatsQueries :
          FinishArgs("get_stats", q, get_stats(Start(sf), q.len, q.plus))

StatsNext ==
    \/ Return
    \/ StatsSend
    \/ StatsCall

SpecStats == StatsInit /\ [][StatsNext]_vars

(* the index of the first event of the log that is not a mint or a write,  *)
(* one past the end when there is none                                     *)
FirstReadIndex(io) ==
    LET idx == {i \in 1..Len(io) : io[i].ev \notin {"mint", "write"}}
    IN IF idx = {} THEN Len(io) + 1 ELSE CHOOSE i \in idx : \A j \in idx : i <= j

(* C12: build_stats_query_packets returns one 0xC0 packet when the         *)
(* serialized GetStats payload is at most FRAGMENT_SIZE bytes long, and    *)
(* otherwise at least two packets, all 0xF0 and all with the id it was     *)
(* given; get_stats mints one id, then writes the packets in the order of  *)
(* the list, one write each, and reads nothing before the last of them is  *)
(* written (a failed send ends the call at that packet)                    *)
C12_StatsChunksWrittenFirst ==
    (~Idle /\ call.op = "get_stats" /\ ~track_steps) =>
      LET q == call.args
          tid == call.pre.tid + 1
          packets == build_stats_query_packets(tid, q.len, q.plus)
          n == Len(packets)
          r == FirstReadIndex(call.io)
      IN /\ q.len <= FRAGMENT_SIZE => n = 1 /\ packets[1].disc = "0xC0"
         /\ q.len > FRAGMENT_SIZE =>
              /\ n >= 2
              /\ \A i \in 1..n : /\ packets[i].disc = "0xF0"
                                 /\ get_tid("fesl", packets[i]) = tid
         /\ call.io[1] = MintEv(tid)
         /\ r <= Len(call.io) =>
              /\ r = n + 2
              /\ \A i \in 1..n : call.io[i + 1] = WriteEv(packets[i], TRUE)
         /\ r > Len(call.io) =>
              /\ call.err = "ConnectionError"
              /\ Len(call.io) \in 2..(n + 1)
              /\ \A i \in 1..(Len(call.io) - 1) :
                    call.io[i + 1] = WriteEv(packets[i], i < Len(call.io) - 1)
         /\ \A i \in r..Len(call.io) : call.io[i].ev # "write"

(* get_stats wrote three chunks, then read a two-fragment response *)
C12_Witness ==
    /\ ~Idle /\ call.op = "get_stats" /\ call.err = "none"
    /\ call.args = [len |-> 12143, plus |-> 1]
    /\ Len(Writes(call.io)) = 3
    /\ Writes(call.io)[3].pkt.body.data = 2
    /\ Len(call.out) = 2

----------------------------------------------------------------------------
(* The chunked stats request, byte by byte.  Bytes and characters are      *)
(* numbers: a byte its value, a character its ASCII code.                  *)

(* base64.b64encode: four characters for every started group of three     *)
(* bytes, '=' (61) in place of the characters a short last group lacks     *)
b64encode(bytes) ==
    The({ LET n == Len(b)
              byte(i) == IF i <= n THEN b[i] ELSE 0
              Char(v) == IF v < 26 THEN 65 + v
                         ELSE IF v < 52 THEN 97 + (v - 26)
                         ELSE IF v < 62 THEN 48 + (v - 52)
                         ELSE IF v = 62 THEN 43 ELSE 47
              At(j) == LET k == (j - 1) \div 4
                           p == (j - 1) % 4
                           v == byte(3*k + 1) * 65536 + byte(3*k + 2) * 256 + byte(3*k + 3)
                       IN IF (p = 2 /\ 3*k + 2 > n) \/ (p = 3 /\ 3*k + 3 > n) THEN 61
                          ELSE Char((v \div (64 ^ (3 - p))) % 64)
          IN [j \in 1..(4 * CeilDiv(n, 3)) |-> At(j)]
          : b \in {bytes \o << >>} })

(* urllib.parse.quote_from_bytes with its default safe='/': letters,       *)
(* digits and _ . - ~ / stay, any other byte becomes '%' (37) and two      *)
(* upper-case hexadecimal digits                                           *)
quote_from_bytes(text) ==
    The({ LET Safe(ch) == \/ ch \in 65..90 \/ ch \in 97..122 \/ ch \in 48..57
                          \/ ch \in {95, 46, 45, 126, 47}
              Hex(d) == IF d < 10 THEN 48 + d ELSE 55 + d
              At(j) == LET ch == t[(j + 2) \div 3]
                           k == (j - 1) % 3
                       IN IF Safe(ch) THEN (IF k = 0 THEN ch ELSE -1)
                          ELSE IF k = 0 THEN 37
                          ELSE IF k = 1 THEN Hex(ch \div 16) ELSE Hex(ch % 16)
          IN SelectSeq([j \in 1..(3 * Len(t)) |-> At(j)], LAMBDA x : x # -1)
          : t \in {text \o << >>} })

(* a builder that encodes the payload without the zero byte after it *)
build_stats_query_chunks_unterminated(tid, payload) ==
    The({ The({
       [i \in 1..CeilDiv(Len(payload_enc), FRAGMENT_SIZE) |->
          FeslBuild("rank",
                    [size |-> Len(payload_b64),
                     data |-> SubSeq(payload_enc, (i - 1) * FRAGMENT_SIZE + 1,
                                     IF i * FRAGMENT_SIZE < Len(payload_enc)
                                     THEN i * FRAGMENT_SIZE ELSE Len(payload_enc))],
                    "MultiPacketRequest", tid)]
       : payload_enc \in {quote_from_bytes(payload_b64)} })
       : payload_b64 \in {b64encode(payload)} })

(* build_stats_query_packets for a payload longer than FRAGMENT_SIZE,      *)
(* given as its bytes: the packets, with the data lines as characters      *)
build_stats_query_chunks(tid, payload) ==
    The({ The({
       [i \in 1..CeilDiv(Len(payload_enc), FRAGMENT_SIZE) |->
          FeslBuild("rank",
                    [size |-> Len(payload_b64),
                     data |-> SubSeq(payload_enc, (i - 1) * FRAGMENT_SIZE + 1,
                                     IF i * FRAGMENT_SIZE < Len(payload_enc)
                                     THEN i * FRAGMENT_SIZE ELSE Len(payload_enc))],
                    "MultiPacketRequest", tid)]
       : payload_enc \in {quote_from_bytes(payload_b64)} })
       : payload_b64 \in {b64encode(payload \o <<0>>)} })

(* urllib.parse.unquote_to_bytes: '%' and two hexadecimal digits become    *)
(* one byte, anything else stays                                           *)
unquote_to_bytes(text) ==
    The({ LET n == Len(t)
              IsHex(ch) == ch \in 48..57 \/ ch \in 65..70 \/ ch \in 97..102
              Val(ch) == IF ch <= 57 THEN ch - 48
                         ELSE IF ch <= 70 THEN ch - 55 ELSE ch - 87
              Escape(i) == /\ i >= 1 /\ i + 2 <= n /\ t[i] = 37
                           /\ IsHex(t[i + 1]) /\ IsHex(t[i + 2])
              heads == SelectSeq([i \in 1..n |-> i],
                                 LAMBDA i : ~Escape(i - 1) /\ ~Escape(i - 2))
          IN [k \in 1..Len(heads) |->
                IF Escape(heads[k])
                THEN 16 * Val(t[heads[k] + 1]) + Val(t[heads[k] + 2])
                ELSE t[heads[k]]]
          : t \in {text \o << >>} })

(* base64.b64decode of a padded text of whole groups *)
b64decode(text) ==
    The({ LET n == Len(t)
              pads == IF n >= 2 /\ t[n - 1] = 61 THEN 2
                      ELSE IF n >= 1 /\ t[n] = 61 THEN 1 ELSE 0
              Val(ch) == IF ch \in 65..90 THEN ch - 65
                         ELSE IF ch \in 97..122 THEN ch - 97 + 26
                         ELSE IF ch \in 48..57 THEN ch - 48 + 52
                         ELSE IF ch = 43 THEN 62
                         ELSE IF ch = 47 THEN 63 ELSE 0
              At(m) == LET k == (m - 1) \div 3
                           q == (m - 1) % 3
                           v == Val(t[4*k + 1]) * 262144 + Val(t[4*k + 2]) * 4096
                                + Val(t[4*k + 3]) * 64 + Val(t[4*k + 4])
                       IN (v \div (256 ^ (2 - q))) % 256
          IN [m \in 1..(3 * (n \div 4) - pads) |-> At(m)]
          : t \in {text \o << >>} })

(* The payloads: a word of bytes repeated up to the length of the payload. *)
(* "TXN" is text without a character to quote; 251 239 190 is '++++' in    *)
(* base64 and 255 255 255 is '////'; "k>" and "x~?" mix '+' and '/' with   *)
(* letters.  The lengths run over every remainder of three.                *)

MaxOver == 9

ChunkWords ==
    {<<84, 88, 78>>, <<251, 239, 190>>, <<255, 255, 255>>, <<107, 62>>,
     <<120, 126, 63>>, <<0>>}

ChunkLens == {FRAGMENT_SIZE + k : k \in 1..MaxOver}

StatsPayload(n, word) == [i \in 1..n |-> word[((i - 1) % Len(word)) + 1]]

ChunkInit ==
    /\ Init
    /\ family = "fesl"

ChunkBuild ==
    /\ \E n \in ChunkLens, word \in ChunkWords :
          FinishArgs("build_stats_query_packets", [len |-> n, word |-> word],
                     [Start(0) EXCEPT
                        !.out = build_stats_query_chunks(transaction_id + 1,
                                                         StatsPayload(n, word))])

ChunkNext ==
    \/ Return
    \/ ChunkBuild

SpecChunks == ChunkInit /\ [][ChunkNext]_vars

(* the data lines of the chunks, one after the other *)
RECURSIVE JoinData(_)
JoinData(packets) ==
    IF packets = << >> THEN << >>
    ELSE Head(packets).body.data \o JoinData(Tail(packets))

ChunksBuilt == ~Idle /\ call.op = "build_stats_query_packets"

(* C13 as stated: the chunks' data lines are FRAGMENT_SIZE characters long *)
(* except the last, which is not longer; joined, percent-decoded and       *)
(* base64-decoded they are the payload followed by one zero byte; and the  *)
(* size line of every chunk is the number of bytes so decoded              *)
C13_SizeIsDecodedSize ==
    ChunksBuilt =>
      LET payload == StatsPayload(call.args.len, call.args.word)
          n == Len(call.out)
      IN /\ \A i \in 1..n : Len(call.out[i].body.data) <= FRAGMENT_SIZE
         /\ \A i \in 1..(n - 1) : Len(call.out[i].body.data) = FRAGMENT_SIZE
         /\ b64decode(unquote_to_bytes(JoinData(call.out))) = payload \o <<0>>
         /\ \A i \in 1..n : call.out[i].body.size = Len(payload) + 1

(* C13, amended: as above, but the size line of every chunk is the length  *)
(* of the base64 text, that is of the joined data lines percent-decoded    *)
(* and not yet base64-decoded.  The data lines have the lengths that       *)
(* build_stats_query_packets computes from the payload's length and the    *)
(* number of characters to quote.                                          *)
C13_SizeIsBase64Length ==
    ChunksBuilt =>
      LET payload == StatsPayload(call.args.len, call.args.word)
          n == Len(call.out)
          text == unquote_to_bytes(JoinData(call.out))
          plus == Len(SelectSeq(text, LAMBDA ch : ch = 43))
          lengths == build_stats_query_packets(call.pre.tid + 1, Len(payload), plus)
      IN /\ n >= 2
         /\ \A i \in 1..n : Len(call.out[i].body.data) <= FRAGMENT_SIZE
         /\ \A i \in 1..(n - 1) : Len(call.out[i].body.data) = FRAGMENT_SIZE
         /\ call.out[n].body.data # << >>
         /\ b64decode(text) = payload \o <<0>>
         /\ \A i \in 1..n : /\ call.out[i].body.size = Len(text)
                            /\ call.out[i].body.size = 4 * CeilDiv(Len(payload) + 1, 3)
         /\ Len(lengths) = n
         /\ \A i \in 1..n : lengths[i] = [call.out[i] EXCEPT !.body.data = Len(@)]

(* a payload whose base64 text is all '+': five chunks, the quoted '+' at   *)
(* the end of the first chunk split between two chunks                     *)
C13_Witness ==
    /\ ChunksBuilt
    /\ call.args.word = <<251, 239, 190>>
    /\ Len(call.out) = 5
    /\ SubSeq(call.out[1].body.data, FRAGMENT_SIZE - 1, FRAGMENT_SIZE) = <<37, 50>>
    /\ call.out[2].body.data[1] = 66
    /\ call.out[1].body.size = 10800

----------------------------------------------------------------------------
(* The response reader *)

(* the packets a log read from the connection, and those wrapped_read returned *)
ReadPackets(io) ==
    LET evs == SelectSeq(io, LAMBDA e : e.ev = "read")
    IN [i \in 1..Len(evs) |-> evs[i].pkt]

ReturnedPackets(io) ==
    LET evs == SelectSeq(io, LAMBDA e : e.ev = "return")
    IN [i \in 1..Len(evs) |-> evs[i].pkt]

(* the characters of the data values the model's server sends *)
DataChars(data) ==
    CASE data = "QUI%3D" -> <<81, 85, 73, 37, 51, 68>>
      [] data = "QQA%3D" -> <<81, 81, 65, 37, 51, 68>>

(* the decoded data of a fragment *)
FragmentBytes(p) == b64decode(unquote_to_bytes(DataChars(p.body.data)))

(* a packet that ends a response: a single-packet response, or a fragment  *)
(* whose decoded data ends in a zero byte                                  *)
Terminating(p) ==
    \/ p.disc = "0x80"
    \/ /\ p.disc = "0xB0"
       /\ FragmentBytes(p)[Len(FragmentBytes(p))] = 0

(* what a packet adds to the response: the body of a single-packet         *)
(* response as it is (no decoded bytes), the decoded data of a fragment    *)
(* without the zero byte that ends the last one                            *)
Contribution(p) ==
    IF p.disc = "0x80" THEN [pkt |-> p, bytes |-> << >>]
    ELSE [pkt |-> p,
          bytes |-> IF Terminating(p)
                    THEN SubSeq(FragmentBytes(p), 1, Len(FragmentBytes(p)) - 1)
                    ELSE FragmentBytes(p)]

(* C14: get_response(tid) takes the packets wrapped_read(tid) returns, in  *)
(* the order of arrival, up to and including the first terminating one: a  *)
(* 0x80 packet, which adds its body as it is, or a 0xB0 fragment whose     *)
(* percent- and base64-decoded data ends in \x00, which is stripped; every *)
(* fragment before it adds its decoded data.  The read of the terminating  *)
(* packet is the last thing the call does: what the server sent after it   *)
(* stays on the connection.  Without a terminating packet the call reads   *)
(* everything and times out.                                               *)
C14_ReadsUntilTerminating ==
    (~Idle /\ call.op = "get_stats" /\ ~track_steps) =>
      LET tid == call.pre.tid + 1
          reads == ReadPackets(call.io)
          ret == ReturnedPackets(call.io)
          k == Len(reads)
          m == Len(ret)
      IN /\ reads = SubSeq(call.pre.inbox, 1, k)
         /\ inbox = SubSeq(call.pre.inbox, k + 1, Len(call.pre.inbox))
         /\ \A i \in 1..(m - 1) : ~Terminating(ret[i])
         /\ \A i \in 1..m : ret[i].disc = "0xB0" =>
               DecodeData(ret[i].body.data) = FragmentBytes(ret[i])
         /\ call.err \in {"none", "TimeoutError", "ConnectionError"}
         /\ call.err = "none" =>
              /\ m >= 1
              /\ Terminating(ret[m])
              /\ call.io[Len(call.io)] = ReturnEv(ret[m], tid)
              /\ reads[k] = ret[m]
              /\ call.out = [i \in 1..m |-> Contribution(ret[i])]
         /\ call.err = "TimeoutError" =>
              /\ inbox = << >>
              /\ \A i \in 1..m : ~Terminating(ret[i])
         /\ call.err = "ConnectionError" => k = 0

(* two fragments made the response and a third packet was left unread *)
C14_Witness ==
    /\ ~Idle /\ call.op = "get_stats" /\ call.err = "none"
    /\ Len(ReturnedPackets(call.io)) = 2
    /\ call.out[1].bytes = <<65, 66>>
    /\ call.out[2].bytes = <<65>>
    /\ call.out[2].pkt = StatsLast(call.pre.tid + 1)
    /\ inbox # << >>

----------------------------------------------------------------------------
(* Abandoned transactions.  An operation that ended in an error leaves its *)
(* transaction open: its response, or the rest of it, is still unread or   *)
(* arrives late.  What the next operation makes of it is observed by       *)
(* running that operation in the state the failed one left, with the late  *)
(* packets behind those already on the connection.                         *)

Abandoned == ~Idle /\ call.op = "get_stats" /\ call.err # "none"

(* what arrives after the failure: packets of the abandoned transaction    *)
(* (id transaction_id) and of the one to come                              *)
LateTraffic ==
    LET left == {StatsSingle(transaction_id), StatsLast(transaction_id)}
        new == {StatsSingle(transaction_id + 1), StatsLast(transaction_id + 1)}
    IN {<<p>> : p \in left} \cup {<<p, q>> : p \in left, q \in new}

(* a packet of the abandoned transaction or of one before it *)
Leftover(p) == get_tid(family, p) <= transaction_id

NextStart(late) == [Start(0) EXCEPT !.inbox = inbox \o late]

(* the next operation took nothing of an earlier transaction: no leftover  *)
(* was returned by wrapped_read, is part of the response or is the packet  *)
(* the operation returns                                                   *)
NoLeftoverTaken(c) ==
    /\ \A i \in 1..Len(c.io) : c.io[i].ev = "return" => ~Leftover(c.io[i].pkt)
    /\ \A i \in 1..Len(c.out) : ~Leftover(c.out[i].pkt)
    /\ c.ret = NoPacket \/ ~Leftover(c.ret)

(* C19: after an abandoned transaction, the next operation that reads its  *)
(* response through wrapped_read (get_stats, through get_response) reads   *)
(* the leftover packets in front of its response and drops them:           *)
(* none is returned by wrapped_read or appended to the response, and each  *)
(* packet it returns or appends carries the new id                        *)
C19_WrappedReadDropsLeftovers ==
    Abandoned =>
      \A late \in LateTraffic :
         LET before == inbox \o late
             c == get_stats(NextStart(late), 100, 0)
             reads == ReadPackets(c.io)
         IN /\ NoLeftoverTaken(c)
            /\ reads = SubSeq(before, 1, Len(reads))
            /\ ReturnedPackets(c.io) = SelectSeq(reads, LAMBDA p : ~Leftover(p))
            /\ \A i \in 1..Len(c.out) :
                  get_tid(family, c.out[i].pkt) = transaction_id + 1
            /\ c.err = "none" => c.out # << >>

(* a query timed out; the rest of its response arrives late, followed by   *)
(* the response to the next query, which drops the first and returns the   *)
(* second                                                                  *)
C19_Witness ==
    /\ Abandoned
    /\ call.err = "TimeoutError"
    /\ Len(ReturnedPackets(call.io)) = 1
    /\ LET late == <<StatsLast(transaction_id), StatsSingle(transaction_id + 1)>>
           c == get_stats(NextStart(late), 100, 0)
       IN /\ c.err = "none"
          /\ ReadPackets(c.io) = late
          /\ ReturnedPackets(c.io) = <<late[2]>>
          /\ c.out = <<Contribution(late[2])>>

----------------------------------------------------------------------------
(* FESL error responses.  The server answers a query with fragments and    *)
(* may end with a packet that carries errorCode, with any of the codes and *)
(* methods the client distinguishes (and some it does not), with or        *)
(* without a TXN line ("" stands for none), as a single-packet response,   *)
(* as a fragment with data of its own, or with a request's discriminator.  *)

MaxErrPackets == 2

ErrCodes == {21, 101, 104, 223, 5000, 122}

ErrTxns ==
    {"NuLookupUserInfo", "NuSearchOwners", "SearchOwners", "GetRecord",
     "GetRecordAsMap", "GetStats", ""}

ErrorResponse(tid, code, txn, disc) ==
    Packet("acct", disc, tid,
           [k \in {"errorCode"} \cup (IF txn = "" THEN {} ELSE {"TXN"})
                  \cup (IF disc = "0xB0" THEN {"data"} ELSE {}) |->
              CASE k = "errorCode" -> code
                [] k = "TXN" -> txn
                [] k = "data" -> "QUI%3D"])

CarriesError(p) == "errorCode" \in DOMAIN p.body

ErrInit ==
    /\ Init
    /\ family = "fesl"
    /\ track_steps = FALSE

ErrSend ==
    /\ Idle
    /\ served < MaxErrPackets
    /\ \A i \in 1..Len(inbox) : ~CarriesError(inbox[i])
    /\ \E p \in {StatsPart(transaction_id + 1)} \cup
                {ErrorResponse(transaction_id + 1, code, txn, disc) :
                   code \in ErrCodes, txn \in ErrTxns, disc \in {"0x80", "0xB0", "0xC0"}} :
          inbox' = Append(inbox, p)
    /\ served' = served + 1
    /\ call' = NoCall
    /\ UNCHANGED <<tasks, family, track_steps, transaction_id, completed_steps,
                   is_connected, maxSent, minted>>

ErrCall ==
    /\ \E legacy \in BOOLEAN : Finish("search_name", search_name(Start(0), legacy))

ErrNext ==
    \/ Return
    \/ ErrSend
    \/ ErrCall

SpecErr == ErrInit /\ [][ErrNext]_vars

(* the error the table gives for a code and a method *)
TableError(code, txn) ==
    IF code = 21 THEN "ParameterError"
    ELSE IF code = 101 /\ txn = "NuLookupUserInfo" THEN "PlayerNotFoundError"
    ELSE IF code = 101 /\ txn = "NuSearchOwners" THEN "SearchError"
    ELSE IF code = 104 /\ txn = "NuSearchOwners" THEN "SearchError"
    ELSE IF code = 223 /\ txn = "SearchOwners" THEN "SearchError"
    ELSE IF code = 5000 /\ txn \in {"GetRecord", "GetRecordAsMap"}
    THEN "RecordNotFoundError"
    ELSE "Error"

(* C15: a query whose response ends with a packet carrying errorCode       *)
(* raises the error the table gives for the packet's code and TXN (the     *)
(* generic Error for every combination the table does not name, a packet   *)
(* without TXN included), whatever the packet's transmission type, and     *)
(* the response holds the data of the fragments before it only             *)
C15_ErrorTable ==
    (/\ ~Idle /\ call.op = "search_name"
     /\ ReturnedPackets(call.io) # << >>
     /\ CarriesError(ReturnedPackets(call.io)[Len(ReturnedPackets(call.io))])) =>
      LET ret == ReturnedPackets(call.io)
          p == ret[Len(ret)]
          txn == IF "TXN" \in DOMAIN p.body THEN p.body["TXN"] ELSE ""
      IN /\ call.err = TableError(p.body["errorCode"], txn)
         /\ call.out = [i \in 1..(Len(ret) - 1) |-> Contribution(ret[i])]

----------------------------------------------------------------------------
(* Theater list and detail queries.  A client without step tracking; the   *)
(* server sends whole responses for the query to come: a header packet     *)
(* (LLST, GLST or GDAT, announcing a count or carrying an error tag),      *)
(* after a GDAT header a GDET packet, possibly a PING prompt, and then k   *)
(* numbered packets, k being the announced count or not.  A response is    *)
(* sent once the client has read what was sent before.                     *)

MaxResponses == 1
MaxCount == 2

TheaterHeader(tag, disc, tid, key, n) ==
    Packet(tag, disc, 0, ("TID" :> tid) @@ (key :> n))

TheaterEntry(tag, tid, i) == Packet(tag, "ok", 0, ("TID" :> tid) @@ ("ID" :> i))

(* the headers whose transmission type is an error tag *)
ErrorHeaders(tid) ==
    {Packet(h[1], h[2], 0, [TID |-> tid]) :
       h \in {<<"GLST", "nrom">>, <<"GLST", "bpar">>, <<"GLST", "ngam">>,
              <<"GDAT", "ngam">>, <<"GDAT", "ntfn">>, <<"GDAT", "bpar">>,
              <<"GDAT", "nrom">>}}

TheaterResponses(tid) ==
    LET Entries(tag, k) == [i \in 1..k |-> TheaterEntry(tag, tid, i)]
        Prompts == {<< >>, <<TheaterPrompt>>}
        Counts == 0..MaxCount
    IN  {<<TheaterHeader("LLST", "ok", tid, "NUM-LOBBIES", n)>> \o pg \o Entries("LDAT", k) :
           n \in Counts, k \in Counts, pg \in Prompts}
   \cup {<<TheaterHeader("GLST", "ok", tid, "NUM-GAMES", n)>> \o pg \o Entries("GDAT", k) :
           n \in Counts, k \in Counts, pg \in Prompts}
   \cup {<<TheaterHeader("GDAT", "ok", tid, "AP", n), TheaterEntry("GDET", tid, 0)>>
           \o pg \o Entries("PDAT", k) :
           n \in Counts, k \in Counts, pg \in Prompts}
   \cup {<<TheaterHeader("GDAT", "ok", tid, "AP", n)>> : n \in Counts}
   \cup {<<h>> \o Entries("GDAT", k) : h \in ErrorHeaders(tid), k \in 0..1}

TheaterInit ==
    /\ Init
    /\ family = "theater"
    /\ track_steps = FALSE

TheaterSend ==
    /\ Idle
    /\ served < MaxResponses
    /\ inbox = << >>
    /\ \E r \in TheaterResponses(transaction_id + 1) : inbox' = inbox \o r
    /\ served' = served + 1
    /\ call' = NoCall
    /\ UNCHANGED <<tasks, family, track_steps, transaction_id, completed_steps,
                   is_connected, maxSent, minted>>

TheaterNext ==
    \/ Return
    \/ TheaterSend
    \/ GetLobbies
    \/ GetServers
    \/ GetGdat

SpecTheater == TheaterInit /\ [][TheaterNext]_vars

(* the packets of a log that wrapped_read took from the connection on the  *)
(* way to those it returned: all that the operation consumed               *)
Consumed == Len(ReadPackets(call.io))

(* C16: get_lobbies and get_servers write their request, take one header   *)
(* packet from wrapped_read and then exactly as many packets as its        *)
(* NUM-LOBBIES (NUM-GAMES) line announces, each giving one entry of the    *)
(* result; the call ends with the read of the last of them, so whatever    *)
(* the server sent beyond the count stays unread, and with fewer packets   *)
(* than announced the call does not return but times out                   *)
C16_ReadsCountPlusOne ==
    (/\ ~Idle /\ call.op \in {"get_lobbies", "get_servers"}
     /\ ReturnedPackets(call.io) # << >>
     /\ call.op = "get_servers" => is_error_response(ReturnedPackets(call.io)[1]) = "none") =>
      LET tid == call.pre.tid + 1
          ret == ReturnedPackets(call.io)
          n == get_int(ret[1].body,
                       IF call.op = "get_lobbies" THEN "NUM-LOBBIES" ELSE "NUM-GAMES", 0)
      IN /\ Len(ret) <= n + 1
         /\ ReadPackets(call.io) = SubSeq(call.pre.inbox, 1, Consumed)
         /\ inbox = SubSeq(call.pre.inbox, Consumed + 1, Len(call.pre.inbox))
         /\ ret = SelectSeq(ReadPackets(call.io),
                            LAMBDA p : p # TheaterPrompt /\ get_tid("theater", p) >= tid)
         /\ call.err = "none" <=> Len(ret) = n + 1
         /\ call.err = "none" =>
              /\ call.out = SubSeq(ret, 2, n + 1)
              /\ call.io[Len(call.io)] = ReturnEv(ret[n + 1], tid)
         /\ call.err # "none" =>
              /\ call.err \in {"TimeoutError", "ConnectionError"}
              /\ call.err = "TimeoutError" => inbox = << >>

(* get_lobbies read a header announcing one lobby, answered a PING, read   *)
(* one LDAT packet and left the second one on the connection               *)
C16_Witness ==
    /\ ~Idle /\ call.op = "get_lobbies" /\ call.err = "none"
    /\ Len(call.out) = 1
    /\ call.out[1] = TheaterEntry("LDAT", call.pre.tid + 1, 1)
    /\ inbox = <<TheaterEntry("LDAT", call.pre.tid + 1, 2)>>
    /\ WriteEv(build_theater_ping_packet, TRUE) \in {call.io[i] : i \in 1..Len(call.io)}

(* C17: get_gdat writes one GDAT request and then takes from wrapped_read, *)
(* in the order of arrival, the GDAT packet, the GDET packet and exactly   *)
(* as many PDAT packets as the AP line of the GDAT packet says; it returns *)
(* these as (gdat, gdet, players), players having AP entries, and reads    *)
(* nothing after the last of them                                          *)
C17_GdatGdetPlayers ==
    (/\ ~Idle /\ call.op = "get_gdat"
     /\ ReturnedPackets(call.io) # << >>
     /\ is_error_response(ReturnedPackets(call.io)[1]) = "none") =>
      LET tid == call.pre.tid + 1
          ret == ReturnedPackets(call.io)
          AP == get_int(ret[1].body, "AP", 0)
          writes == Writes(call.io)
      IN /\ call.io[1] = MintEv(tid)
         /\ call.io[2].ev = "write"
         /\ call.io[2].pkt.tag = "GDAT" /\ call.io[2].pkt.disc = "@"
         /\ get_tid("theater", call.io[2].pkt) = tid
         /\ \A i \in 2..Len(writes) : writes[i].pkt = build_theater_ping_packet
         /\ Len(ret) <= AP + 2
         /\ ret = SelectSeq(SubSeq(call.pre.inbox, 1, Consumed),
                            LAMBDA p : p # TheaterPrompt /\ get_tid("theater", p) >= tid)
         /\ inbox = SubSeq(call.pre.inbox, Consumed + 1, Len(call.pre.inbox))
         /\ call.err = "none" <=> Len(ret) = AP + 2
         /\ call.err = "none" =>
              /\ call.out = ret
              /\ Len(call.out) - 2 = AP
              /\ call.io[Len(call.io)] = ReturnEv(ret[AP + 2], tid)

(* GDAT announcing two players, GDET and two PDAT packets, in this order *)
C17_Witness ==
    /\ ~Idle /\ call.op = "get_gdat" /\ call.err = "none"
    /\ Len(call.out) = 4
    /\ call.out[1].tag = "GDAT" /\ call.out[1].body["AP"] = 2
    /\ call.out[2].tag = "GDET"
    /\ call.out[3] = TheaterEntry("PDAT", call.pre.tid + 1, 1)
    /\ call.out[4] = TheaterEntry("PDAT", call.pre.tid + 1, 2)
    /\ inbox = << >>

(* the error a header stands for, by its type tag and transmission type *)
TheaterTable(tag, disc) ==
    CASE tag = "GLST" /\ disc = "nrom" -> "LobbyNotFoundError"
      [] tag = "GDAT" /\ disc = "ngam" -> "ServerNotFoundError"
      [] tag = "GDAT" /\ disc = "ntfn" -> "PlayerNotFoundError"
      [] disc = "bpar" -> "ParameterError"
      [] OTHER -> "none"

(* C18: when the first packet get_servers or get_gdat takes from           *)
(* wrapped_read has an error header, the call raises the error the table   *)
(* gives at once: that read is the last thing it does, and what the server *)
(* sent after the header stays unread.  A header outside the table raises  *)
(* none of these errors.                                                   *)
C18_ErrorHeaderRaised ==
    (/\ ~Idle /\ call.op \in {"get_servers", "get_gdat"}
     /\ ReturnedPackets(call.io) # << >>) =>
      LET tid == call.pre.tid + 1
          ret == ReturnedPackets(call.io)
          e == TheaterTable(ret[1].tag, ret[1].disc)
      IN /\ is_error_response(ret[1]) = e
         /\ e # "none" =>
              /\ call.err = e
              /\ Len(ret) = 1
              /\ call.io[Len(call.io)] = ReturnEv(ret[1], tid)
              /\ inbox = SubSeq(call.pre.inbox, Consumed + 1, Len(call.pre.inbox))
         /\ e = "none" =>
              call.err \in {"none", "TimeoutError", "ConnectionError"}

(* GDATntfn raised PlayerNotFoundError and the packet after it was not read *)
C18_Witness ==
    /\ ~Idle /\ call.op = "get_gdat" /\ call.err = "PlayerNotFoundError"
    /\ ReturnedPackets(call.io) = <<Packet("GDAT", "ntfn", 0, [TID |-> call.pre.tid + 1])>>
    /\ inbox = <<TheaterEntry("GDAT", call.pre.tid + 1, 1)>>

----------------------------------------------------------------------------
(* Two coroutines on one AsyncFeslClient.  A coroutine runs without        *)
(* interruption from one await to the next, so a step of a task is the     *)
(* code between two awaits: the request (the id is minted and the packet   *)
(* handed to the writer before the first await of the operation) and then  *)
(* one step for every "await self.connection.read()" that returns.  The    *)
(* connection hands out whole packets in arrival order to whichever task   *)
(* reads next; the server answers each request with one packet carrying    *)
(* the request's id, in any order.  Step tracking is off, so a query       *)
(* starts with its own request.                                            *)

AsyncTasks == {1, 2}
MaxAsyncCalls == 3

IdleTask == [pc |-> "idle", tid |-> 0, answered |-> FALSE, dropped |-> << >>,
             out |-> << >>, err |-> "none"]

AsyncResponse(tid) == Packet("recp", "0x80", tid, [TXN |-> "GetRecordAsMap"])

(* a wrapped_read that takes only a packet carrying exactly its own id *)
async_wrapped_read_exact(task, p) ==
    IF is_auto_respond_packet("fesl", p) # "none" THEN task
    ELSE IF get_tid("fesl", p) # task.tid
    THEN [task EXCEPT !.dropped = Append(@, p)]
    ELSE The({
            IF r.err # "none" THEN [task EXCEPT !.pc = "raised", !.err = r.err]
            ELSE IF r.last THEN [task EXCEPT !.pc = "done", !.out = Append(@, p)]
            ELSE [task EXCEPT !.out = Append(@, p)]
            : r \in {process_response_packet(p)} })

(* AsyncClient.wrapped_read inside AsyncFeslClient.get_response, from the  *)
(* return of connection.read() with packet p to the next await or to the   *)
(* end of the operation: a prompt or a packet with a smaller id makes the  *)
(* task read again, any other packet goes to process_response_packet       *)
async_wrapped_read(task, p) ==
    IF is_auto_respond_packet("fesl", p) # "none" THEN task
    ELSE IF get_tid("fesl", p) < task.tid
    THEN [task EXCEPT !.dropped = Append(@, p)]
    ELSE The({
            IF r.err # "none" THEN [task EXCEPT !.pc = "raised", !.err = r.err]
            ELSE IF r.last THEN [task EXCEPT !.pc = "done", !.out = Append(@, p)]
            ELSE [task EXCEPT !.out = Append(@, p)]
            : r \in {process_response_packet(p)} })

AsyncInit ==
    /\ family = "fesl"
    /\ track_steps = FALSE
    /\ transaction_id = 0
    /\ completed_steps = NoSteps
    /\ is_connected = FALSE
    /\ inbox = << >>
    /\ served = 0
    /\ maxSent = 0
    /\ minted = 0
    /\ call = NoCall
    /\ tasks = [t \in AsyncTasks |-> IdleTask]

(* AsyncFeslClient.get_dogtags up to its first await: get_transaction_id,  *)
(* build_dogtag_query_packet and the write of the request                  *)
AsyncRequest ==
    /\ transaction_id < MaxAsyncCalls
    /\ \E t \in AsyncTasks :
          /\ tasks[t].pc = "idle"
          /\ tasks' = [tasks EXCEPT ![t] = [IdleTask EXCEPT !.pc = "reading",
                          !.tid = build_dogtag_query_packet(transaction_id + 1).tid]]
    /\ transaction_id' = transaction_id + 1
    /\ minted' = minted + 1
    /\ maxSent' = transaction_id + 1
    /\ is_connected' = TRUE
    /\ UNCHANGED <<family, track_steps, completed_steps, inbox, served, call>>

(* the server answers the request of a task *)
AsyncRespond ==
    /\ \E t \in AsyncTasks :
          /\ tasks[t].pc # "idle"
          /\ ~tasks[t].answered
          /\ inbox' = Append(inbox, AsyncResponse(tasks[t].tid))
          /\ tasks' = [tasks EXCEPT ![t].answered = TRUE]
    /\ served' = served + 1
    /\ UNCHANGED <<family, track_steps, transaction_id, completed_steps,
                   is_connected, maxSent, minted, call>>

(* the connection.read() a task awaits returns the next packet *)
AsyncRead ==
    /\ inbox # << >>
    /\ \E t \in AsyncTasks :
          /\ tasks[t].pc = "reading"
          /\ tasks' = [tasks EXCEPT ![t] = async_wrapped_read(@, Head(inbox))]
    /\ inbox' = Tail(inbox)
    /\ UNCHANGED <<family, track_steps, transaction_id, completed_steps,
                   is_connected, served, maxSent, minted, call>>

(* the connection.read() a task awaits receives nothing and times out *)
AsyncTimeout ==
    /\ inbox = << >>
    /\ \E t \in AsyncTasks :
          /\ tasks[t].pc = "reading"
          /\ tasks' = [tasks EXCEPT ![t].pc = "raised", ![t].err = "TimeoutError"]
    /\ UNCHANGED <<family, track_steps, transaction_id, completed_steps,
                   is_connected, inbox, served, maxSent, minted, call>>

(* the caller of a task takes its result or its exception *)
AsyncReturn ==
    /\ \E t \in AsyncTasks :
          /\ tasks[t].pc \in {"done", "raised"}
          /\ tasks' = [tasks EXCEPT ![t] = IdleTask]
    /\ UNCHANGED <<family, track_steps, transaction_id, completed_steps,
                   is_connected, inbox, served, maxSent, minted, call>>

AsyncNext ==
    \/ AsyncRequest
    \/ AsyncRespond
    \/ AsyncRead
    \/ AsyncTimeout
    \/ AsyncReturn

SpecAsync == AsyncInit /\ [][AsyncNext]_vars

Elems(seq) == {seq[i] : i \in 1..Len(seq)}

(* C20: when two tasks interleave operations on one async client, a        *)
(* response is dropped by, or delivered to, the task that did not request  *)
(* it: of two tasks with a request under way, the one holding the larger   *)
(* id has dropped, and never accepted, every response to the other's       *)
(* request that it read, and the one holding the smaller id has accepted   *)
(* as its own, and never dropped, the response to the other's request that *)
(* it read; every packet a task consumed went one of these two ways by its *)
(* id alone.                                                               *)
C20_CrossedResponses ==
    \A t \in AsyncTasks, u \in AsyncTasks :
        (t # u /\ tasks[t].pc # "idle" /\ tasks[u].pc # "idle") =>
            /\ tasks[t].tid > tasks[u].tid =>
                  AsyncResponse(tasks[u].tid) \notin Elems(tasks[t].out)
            /\ tasks[t].tid < tasks[u].tid =>
                  AsyncResponse(tasks[u].tid) \notin Elems(tasks[t].dropped)
            /\ \A p \in Elems(tasks[t].dropped) : get_tid("fesl", p) < tasks[t].tid
            /\ \A p \in Elems(tasks[t].out) : get_tid("fesl", p) >= tasks[t].tid

(* both crossings in one run: task 2 (id 2) dropped the response to task   *)
(* 1's request (id 1), task 1 then took the response to task 2's request   *)
(* as its result, and task 2 timed out waiting for it                      *)
C20_Witness ==
    /\ tasks[1].tid = 1 /\ tasks[2].tid = 2
    /\ tasks[2].dropped = <<AsyncResponse(1)>>
    /\ tasks[1].pc = "done" /\ tasks[1].out = <<AsyncResponse(2)>>
    /\ tasks[2].pc = "raised" /\ tasks[2].err = "TimeoutError"

----------------------------------------------------------------------------
(* Packets at the level of bytes.  A byte string is a sequence of numbers  *)
(* 0..255, a packet the record of its header and its body.                 *)

HEADER_LENGTH == 12

VALID_HEADER_TYPES_FESL ==
    {<<97, 99, 99, 116>>, <<102, 115, 121, 115>>,       \* acct fsys
     <<114, 97, 110, 107>>, <<114, 101, 99, 112>>}      \* rank recp

VALID_HEADER_TYPES_THEATER ==
    {<<67, 79, 78, 78>>, <<85, 83, 69, 82>>, <<76, 76, 83, 84>>,   \* CONN USER LLST
     <<76, 68, 65, 84>>, <<71, 76, 83, 84>>, <<71, 68, 65, 84>>,   \* LDAT GLST GDAT
     <<71, 68, 69, 84>>, <<80, 68, 65, 84>>, <<80, 73, 78, 71>>}   \* GDET PDAT PING

VALID_HEADER_ERROR_INDICATORS ==
    {<<110, 103, 97, 109>>, <<110, 114, 111, 109>>,     \* ngam nrom
     <<98, 112, 97, 114>>, <<110, 116, 102, 110>>}      \* bpar ntfn

FeslTransmissionType ==
    {"Ping", "SinglePacketResponse", "MultiPacketResponse",
     "SinglePacketRequest", "MultiPacketRequest"}

TheaterTransmissionType == {"Request", "OKResponse", "ErrorResponse"}

(* b[i:j] of Python for 0 <= i and 0 <= j *)
Slice(b, i, j) ==
    SubSeq(b, (IF i < Len(b) THEN i ELSE Len(b)) + 1, IF j < Len(b) THEN j ELSE Len(b))

(* "a[i:j] = v" on a bytearray *)
SliceAssign(a, i, j, v) ==
    Slice(a, 0, i) \o v \o Slice(a, IF j < i THEN i ELSE j, Len(a))

(* Packet.int2bytes raises OverflowError unless i fits length bytes *)
Fits(i, length) == i >= 0 /\ (length < 4 => i < 256 ^ length)

(* an int2bytes that writes the least significant byte first *)
int2bytes_little_endian(i, length) ==
    [k \in 1..length |-> (i \div (256 ^ (k - 1))) % 256] \o << >>

(* Packet.int2bytes: big-endian *)
int2bytes(i, length) ==
    [k \in 1..length |-> (i \div (256 ^ (length - k))) % 256] \o << >>

(* Packet.bytes2int *)
RECURSIVE bytes2int(_)
bytes2int(b) ==
    IF b = << >> THEN 0
    ELSE bytes2int(SubSeq(b, 1, Len(b) - 1)) * 256 + b[Len(b)]

(* str(n).encode('utf8') *)
RECURSIVE str_encode(_)
str_encode(n) ==
    IF n < 0 THEN <<45>> \o str_encode(0 - n)
    ELSE IF n < 10 THEN <<48 + n>>
    ELSE str_encode(n \div 10) \o <<48 + (n % 10)>>

BytePacket(header, body) == [header |-> header, body |-> body]

(* length indicators that count the header only *)
set_length_indicators_header_only(q) ==
    [q EXCEPT !.header = SliceAssign(@, 8, 12, int2bytes(Len(q.header), 4))]

(* Packet.set_length_indicators *)
set_length_indicators(q) ==
    [q EXCEPT !.header =
        SliceAssign(@, 8, 12, int2bytes(Len(q.header) + Len(q.body), 4))]

(* Packet.indicated_length *)
indicated_length(q) == bytes2int(Slice(q.header, 8, 12))

(* Packet.indicated_body_length *)
indicated_body_length(q) == indicated_length(q) - Len(q.header)

(* FeslPacket.set_tid / TheaterPacket.set_tid *)
set_tid(fam, q, tid) ==
    IF fam = "fesl"
    THEN [q EXCEPT !.header = SliceAssign(@, 5, 8, int2bytes(tid, 3))]
    ELSE [q EXCEPT !.body =
             Slice(@, 0, IF Len(@) < 2 THEN 0 ELSE Len(@) - 2)
             \o <<10, 84, 73, 68, 61>> \o str_encode(tid) \o <<10, 0>>]

(* FeslPacket.set_transmission_type / TheaterPacket.set_transmission_type: *)
(* a type of the other family matches no branch                            *)
set_transmission_type(fam, q, tt) ==
    IF fam = "fesl"
    THEN CASE tt = "Ping" ->
                 [q EXCEPT !.header = SliceAssign(@, 4, 5, <<0>>)]
           [] tt = "SinglePacketResponse" ->
                 [q EXCEPT !.header = SliceAssign(@, 4, 5, <<128>>)]
           [] tt = "MultiPacketResponse" ->
                 [q EXCEPT !.header = SliceAssign(@, 4, 5, <<176>>)]
           [] tt = "SinglePacketRequest" ->
                 [q EXCEPT !.header = SliceAssign(@, 4, 5, <<192>>)]
           [] tt = "MultiPacketRequest" ->
                 [q EXCEPT !.header = SliceAssign(@, 4, 5, <<240>>)]
           [] OTHER -> q
    ELSE CASE tt = "Request" ->
                 [q EXCEPT !.header = SliceAssign(@, 4, 8, <<64, 0, 0, 0>>)]
           [] tt = "OKResponse" ->
                 [q EXCEPT !.header = SliceAssign(@, 4, 8, <<0, 0, 0, 0>>)]
           [] OTHER -> q

(* Packet.get_data: the body without a trailing zero byte *)
get_data(q) ==
    IF Len(q.body) > 0 /\ q.body[Len(q.body)] = 0
    THEN SubSeq(q.body, 1, Len(q.body) - 1) ELSE q.body

(* bytes.split(sep) for a separator of one byte *)
RECURSIVE Split(_, _)
Split(b, sep) ==
    IF \A i \in 1..Len(b) : b[i] # sep THEN <<b>>
    ELSE LET i == CHOOSE k \in 1..Len(b) : b[k] = sep /\ \A j \in 1..(k - 1) : b[j] # sep
         IN <<SubSeq(b, 1, i - 1)>> \o Split(SubSeq(b, i + 1, Len(b)), sep)

(* "pat in b" of bytes *)
Contains(b, pat) ==
    \E i \in 0..(Len(b) - Len(pat)) : SubSeq(b, i + 1, i + Len(pat)) = pat

IsDigit(x) == x \in 48..57

(* bytes.isalnum *)
isalnum(b) ==
    b # << >> /\ \A i \in 1..Len(b) : IsDigit(b[i]) \/ b[i] \in 65..90 \/ b[i] \in 97..122

(* int(b) of decimal digits *)
RECURSIVE int(_)
int(b) ==
    IF b = << >> THEN 0 ELSE int(SubSeq(b, 1, Len(b) - 1)) * 10 + (b[Len(b)] - 48)

(* FeslPacket.get_tid / TheaterPacket.get_tid: the exception raised ("none" *)
(* when there is none) and the id                                          *)
packet_get_tid(fam, q) ==
    IF fam = "fesl" THEN [err |-> "none", v |-> bytes2int(Slice(q.header, 5, 8))]
    ELSE LET lines == Split(get_data(q), 10)
             found == {i \in 1..Len(lines) : Contains(lines[i], <<84, 73, 68, 61>>)}
             tid_line == IF found = {} THEN << >>
                         ELSE lines[CHOOSE i \in found : \A j \in found : i <= j]
             tid_bytes == Slice(tid_line, 4, Len(tid_line))
         IN IF ~isalnum(tid_bytes) THEN [err |-> "none", v |-> 0]
            ELSE IF \A i \in 1..Len(tid_bytes) : IsDigit(tid_bytes[i])
            THEN [err |-> "none", v |-> int(tid_bytes)]
            ELSE [err |-> "ValueError", v |-> 0]

(* Packet.build; tid is the empty set for None and {t} for the id t.  The  *)
(* result is the exception raised ("none" when there is none) and the      *)
(* packet built                                                            *)
build(fam, header_stub, body_data, tt, tid) ==
    LET header == header_stub \o [i \in 1..(HEADER_LENGTH - Len(header_stub)) |-> 0]
        q0 == BytePacket(header, body_data \o <<10, 0>>)
    IN IF tid # {} /\ fam = "fesl" /\ ~Fits(The(tid), 3)
       THEN [err |-> "OverflowError", q |-> q0]
       ELSE [err |-> "none",
             q |-> set_length_indicators(set_transmission_type(fam,
                      IF tid = {} THEN q0 ELSE set_tid(fam, q0, The(tid)), tt))]

(* a validate_header that does not look at the discriminator *)
validate_header_any_discriminator(fam, q) ==
    /\ Len(q.header) = HEADER_LENGTH
    /\ bytes2int(Slice(q.header, 8, 12)) > 0
    /\ Slice(q.header, 0, 4) \in
          (IF fam = "fesl" THEN VALID_HEADER_TYPES_FESL ELSE VALID_HEADER_TYPES_THEATER)

(* Packet.validate_header, FeslPacket.validate_header and                  *)
(* TheaterPacket.validate_header: TRUE when no Error is raised             *)
validate_header(fam, q) ==
    /\ Len(q.header) = HEADER_LENGTH
    /\ bytes2int(Slice(q.header, 8, 12)) > 0
    /\ IF fam = "fesl"
       THEN /\ Slice(q.header, 0, 4) \in VALID_HEADER_TYPES_FESL
            /\ q.header[5] \in {0, 128, 176, 192, 240}
       ELSE /\ Slice(q.header, 0, 4) \in VALID_HEADER_TYPES_THEATER
            /\ \/ bytes2int(Slice(q.header, 4, 8)) = 0
               \/ q.header[5] = 64 /\ bytes2int(Slice(q.header, 5, 8)) = 0
               \/ Slice(q.header, 4, 8) \in VALID_HEADER_ERROR_INDICATORS

(* Packet.validate_body: TRUE when no Error is raised *)
validate_body(q) == indicated_length(q) = Len(q.header) + Len(q.body)

----------------------------------------------------------------------------
(* Packet construction and header fields, applied to inputs drawn from     *)
(* small sets; the family of the packet class is the client's family.      *)

HeaderStubs(fam) ==
    IF fam = "fesl" THEN VALID_HEADER_TYPES_FESL ELSE VALID_HEADER_TYPES_THEATER

(* no data, TXN=Hello, "A=1\nB=", TID=7 *)
BodyData ==
    {<< >>, <<84, 88, 78, 61, 72, 101, 108, 108, 111>>,
     <<65, 61, 49, 10, 66, 61>>, <<84, 73, 68, 61, 55>>}

BuildTids == {{}, {0}, {1}, {255}, {256}, {65536}, {16777215}, {16777216}}

PacketInit ==
    /\ Init
    /\ track_steps = FALSE

PacketBuild ==
    /\ \E header_stub \in HeaderStubs(family), body_data \in BodyData,
          tt \in FeslTransmissionType \cup TheaterTransmissionType,
          tid \in BuildTids :
          FinishArgs("build",
                     [header_stub |-> header_stub, body_data |-> body_data,
                      tt |-> tt, tid |-> tid],
                     The({ [Start(0) EXCEPT !.err = r.err, !.ret = r.q]
                           : r \in {build(family, header_stub, body_data, tt, tid)} }))

(* "fsys" request headers without and with an id, and a header that is   *)
(* no valid one                                                            *)
TidHeaders ==
    {<<102, 115, 121, 115, 192, 0, 0, 0, 0, 0, 0, 34>>,
     <<114, 97, 110, 107, 176, 1, 2, 3, 0, 0, 1, 0>>,
     <<255, 254, 253, 252, 251, 250, 249, 248, 247, 246, 245, 244>>}

(* "LID=257\n\0", "A=1\0", "TID=3\0", "TID=3\n\0", "\n\0" and no body *)
TidBodies ==
    {<<76, 73, 68, 61, 50, 53, 55, 10, 0>>, <<65, 61, 49, 0>>,
     <<84, 73, 68, 61, 51, 0>>, <<84, 73, 68, 61, 51, 10, 0>>, <<10, 0>>, << >>}

(* the packets set_tid is applied to: FESL packets with a 12-byte header,  *)
(* valid Theater packets                                                   *)
TidPackets(fam) ==
    IF fam = "fesl"
    THEN {BytePacket(h, b) : h \in TidHeaders, b \in TidBodies}
    ELSE {set_length_indicators(BytePacket(h, b)) :
             h \in {<<71, 68, 65, 84, 64, 0, 0, 0, 0, 0, 0, 0>>,
                    <<80, 73, 78, 71, 0, 0, 0, 0, 0, 0, 0, 0>>,
                    <<71, 76, 83, 84, 110, 103, 97, 109, 0, 0, 0, 0>>},
             b \in TidBodies}

SetTids == {-1, 0, 1, 10, 255, 256, 65535, 65536, 16777215, 16777216}

PacketSetTid ==
    /\ \E q \in TidPackets(family), tid \in SetTids :
          FinishArgs("set_tid", [q |-> q, tid |-> tid],
                     IF family = "fesl" /\ ~Fits(tid, 3)
                     THEN [Start(0) EXCEPT !.err = "OverflowError", !.ret = q]
                     ELSE [Start(0) EXCEPT !.ret = set_tid(family, q, tid)])

(* fsys, rank, GDAT, PING, "none" and "FSYS" *)
HeaderTags ==
    {<<102, 115, 121, 115>>, <<114, 97, 110, 107>>, <<71, 68, 65, 84>>,
     <<80, 73, 78, 71>>, <<110, 111, 110, 101>>, <<70, 83, 89, 83>>}

(* header bytes 4-7: the FESL discriminators with and without an id, the   *)
(* Theater request marker with and without a byte after it, the error      *)
(* tags, "ngaM", and bytes that are none of these                          *)
HeaderDiscriminators ==
    {<<0, 0, 0, 0>>, <<0, 0, 0, 1>>, <<128, 0, 0, 1>>, <<176, 0, 0, 0>>,
     <<192, 0, 0, 5>>, <<240, 0, 0, 0>>, <<129, 0, 0, 0>>, <<64, 0, 0, 0>>,
     <<64, 0, 0, 1>>, <<1, 1, 1, 1>>, <<110, 103, 97, 77>>, <<127, 0, 0, 0>>}
    \cup VALID_HEADER_ERROR_INDICATORS

HeaderLengths ==
    {<<0, 0, 0, 0>>, <<0, 0, 0, 1>>, <<0, 0, 0, 18>>, <<0, 0, 1, 0>>, <<1, 0, 0, 0>>}

(* headers of 12 bytes, the same cut to 11 bytes and extended to 13, and   *)
(* the empty header.  TheaterPacket.validate_header reads bytes 4-7 as a   *)
(* number; those that read as 2^31 or more are beyond the checker's        *)
(* integers and are left out for Theater.                                  *)
Headers(fam) ==
    LET full == {t \o d \o l : t \in HeaderTags,
                               d \in {x \in HeaderDiscriminators : fam = "fesl" \/ x[1] < 128},
                               l \in HeaderLengths}
    IN full \cup {SubSeq(h, 1, 11) : h \in full} \cup {h \o <<0>> : h \in full}
            \cup {<< >>}

PacketValidateHeader ==
    /\ \E header \in Headers(family) :
          FinishArgs("validate_header", [header |-> header],
                     [Start(0) EXCEPT !.err =
                         IF validate_header(family, BytePacket(header, << >>))
                         THEN "none" ELSE "Error"])

PacketNext ==
    \/ Return
    \/ PacketBuild
    \/ PacketSetTid
    \/ PacketValidateHeader

SpecPacket == PacketInit /\ [][PacketNext]_vars

(* C21: every packet build returns, for either family, whatever the        *)
(* whitelisted type tag, the body data, the transmission type and the      *)
(* optional transaction id, has an indicated length equal to the length of *)
(* its header plus the length of its body, and passes validate_header and  *)
(* validate_body.                                                          *)
C21_BuiltPacketsAreValid ==
    (call.op = "build" /\ call.err = "none") =>
        /\ indicated_length(call.ret) = Len(call.ret.header) + Len(call.ret.body)
        /\ validate_header(family, call.ret)
        /\ validate_body(call.ret)

(* a Theater GDAT request built with body data "A=1\nB=" and id 256 *)
C21_Witness ==
    /\ family = "theater" /\ call.op = "build" /\ call.err = "none"
    /\ call.args = [header_stub |-> <<71, 68, 65, 84>>,
                    body_data |-> <<65, 61, 49, 10, 66, 61>>,
                    tt |-> "Request", tid |-> {256}]
    /\ call.ret.header = <<71, 68, 65, 84, 64, 0, 0, 0, 0, 0, 0, 28>>
    /\ validate_header(family, call.ret) /\ validate_body(call.ret)

(* C22: the body of a packet produced by build is the given body data      *)
(* followed by exactly one terminating zero byte and nothing else (for a   *)
(* Theater packet built with a transaction id: the body data, a line       *)
(* TID=<n>, then the zero byte), so the indicated length of a FESL packet  *)
(* is 12 + len(body data) + 1.                                             *)
C22_BodyIsDataThenTerminator ==
    (call.op = "build" /\ call.err = "none") =>
        /\ call.ret.body =
              call.args.body_data
              \o (IF family = "theater" /\ call.args.tid # {}
                  THEN <<10, 84, 73, 68, 61>> \o str_encode(The(call.args.tid))
                  ELSE << >>)
              \o <<0>>
        /\ family = "fesl" =>
              indicated_length(call.ret) = 12 + Len(call.args.body_data) + 1

(* C23: for every FESL packet with a 12-byte header and every transaction  *)
(* id t in [0, 2^24), set_tid(t) succeeds, get_tid() then returns t, and   *)
(* the type tag (bytes 0-3), the discriminator (byte 4), the length        *)
(* indicator (bytes 8-11) and the body are unchanged.                      *)
C23_FeslTidRoundTrip ==
    (call.op = "set_tid" /\ family = "fesl"
        /\ call.args.tid >= 0 /\ call.args.tid < 16777216) =>
        /\ call.err = "none"
        /\ packet_get_tid("fesl", call.ret) = [err |-> "none", v |-> call.args.tid]
        /\ Len(call.ret.header) = HEADER_LENGTH
        /\ Slice(call.ret.header, 0, 5) = Slice(call.args.q.header, 0, 5)
        /\ Slice(call.ret.header, 8, 12) = Slice(call.args.q.header, 8, 12)
        /\ call.ret.body = call.args.q.body

(* id 65536 written over the id 1-2-3 of a "rank" packet: bytes 5-7 become *)
(* 1, 0, 0 and the rest of the header stays                                *)
C23_Witness ==
    /\ call.op = "set_tid" /\ family = "fesl" /\ call.err = "none"
    /\ call.args.tid = 65536
    /\ call.args.q.header = <<114, 97, 110, 107, 176, 1, 2, 3, 0, 0, 1, 0>>
    /\ call.ret.header = <<114, 97, 110, 107, 176, 1, 0, 0, 0, 0, 1, 0>>
    /\ packet_get_tid("fesl", call.ret).v = 65536

(* C24: for every valid Theater packet and every transaction id t, after   *)
(* set_tid(t) get_tid() returns t and the length indicator has been        *)
(* recomputed, so that the indicated length still equals the length of the *)
(* header plus the length of the body (validate_body succeeds).            *)
C24_TheaterTidRoundTrip ==
    (call.op = "set_tid" /\ family = "theater" /\ call.args.tid >= 0) =>
        /\ packet_get_tid("theater", call.ret) = [err |-> "none", v |-> call.args.tid]
        /\ indicated_length(call.ret) = Len(call.ret.header) + Len(call.ret.body)
        /\ validate_body(call.ret)

(* C25: validate_header accepts a header if and only if it is exactly 12   *)
(* bytes long, its indicated packet length is greater than 0, its type tag *)
(* is in the family's whitelist and its discriminator is allowed: for FESL *)
(* byte 4 is one of 0x00, 0x80, 0xB0, 0xC0, 0xF0; for Theater bytes 4-7    *)
(* are the request marker, four zero bytes or one of the error tags ngam,  *)
(* nrom, ntfn, bpar.  Every other header raises Error.                     *)
C25_HeaderAcceptedIff ==
    call.op = "validate_header" =>
        LET h == call.args.header
            accepted ==
                /\ Len(h) = 12
                /\ SubSeq(h, 9, 12) # <<0, 0, 0, 0>>
                /\ IF family = "fesl"
                   THEN /\ SubSeq(h, 1, 4) \in
                              {<<97, 99, 99, 116>>, <<102, 115, 121, 115>>,
                               <<114, 97, 110, 107>>, <<114, 101, 99, 112>>}
                        /\ h[5] \in {0, 128, 176, 192, 240}
                   ELSE /\ SubSeq(h, 1, 4) \in
                              {<<67, 79, 78, 78>>, <<85, 83, 69, 82>>, <<76, 76, 83, 84>>,
                               <<76, 68, 65, 84>>, <<71, 76, 83, 84>>, <<71, 68, 65, 84>>,
                               <<71, 68, 69, 84>>, <<80, 68, 65, 84>>, <<80, 73, 78, 71>>}
                        /\ SubSeq(h, 5, 8) \in
                              {<<64, 0, 0, 0>>, <<0, 0, 0, 0>>,
                               <<110, 103, 97, 109>>, <<110, 114, 111, 109>>,
                               <<110, 116, 102, 110>>, <<98, 112, 97, 114>>}
        IN /\ call.err = "none" <=> accepted
           /\ call.err = "Error" <=> ~accepted

(* a Theater error header is accepted ("GDATntfn", length 18) *)
C25_Witness ==
    /\ family = "theater" /\ call.op = "validate_header" /\ call.err = "none"
    /\ call.args.header = <<71, 68, 65, 84, 110, 116, 102, 110, 0, 0, 0, 18>>

----------------------------------------------------------------------------
(* Connection.read, one step for every iteration of its loop.  inbox holds *)
(* the bytes the server has sent and the client has not received yet, in   *)
(* order; the number -1 at the end of them stands for the server having    *)
(* closed the connection.  The packet under construction, the clock and    *)
(* the last request to recv are kept in call while the read is under way.  *)

READ_TIMEOUT == 2
MaxNow == 5

(* Packet.header_buflen, Packet.body_buflen, Packet.buflen *)
header_buflen(q) == HEADER_LENGTH - Len(q.header)

body_buflen(q) == indicated_body_length(q) - Len(q.body)

(* a buflen that asks for a whole header's worth of bytes every time *)
buflen_header_length(q) == HEADER_LENGTH

buflen(q) == IF header_buflen(q) > 0 THEN header_buflen(q) ELSE body_buflen(q)

(* what sock.recv(n) can do when the bytes avail are to come: hand over    *)
(* between one and n of them after a delay short of the socket's timeout,  *)
(* hand over nothing because the server has closed the connection, run     *)
(* into the socket's timeout, or fail                                      *)
RecvOutcomes(avail, n) ==
    (IF avail # << >> /\ Head(avail) # -1
     THEN {[kind |-> "data", k |-> k, d |-> d] :
              k \in {j \in 1..n : j <= Len(avail) /\ \A i \in 1..j : avail[i] # -1},
              d \in 0..READ_TIMEOUT}
     ELSE IF avail # << >>
     THEN {[kind |-> "closed", k |-> 0, d |-> d] : d \in {0, 1}}
     ELSE {[kind |-> "timeout", k |-> 0, d |-> READ_TIMEOUT]})
    \cup {[kind |-> "error", k |-> 0, d |-> 0]}

(* the body of the loop of Connection.read for the bytes buf that recv     *)
(* returned: the packet, and "Error" when the completed header is invalid  *)
read_iteration(fam, q, buf) ==
    IF header_buflen(q) > 0
    THEN LET take == IF header_buflen(q) < Len(buf) THEN header_buflen(q) ELSE Len(buf)
             q1 == [q EXCEPT !.header = @ \o SubSeq(buf, 1, take)]
         IN IF header_buflen(q1) = 0 /\ ~validate_header(fam, q1)
            THEN [err |-> "Error", q |-> q1]
            ELSE [err |-> "none",
                  q |-> [q1 EXCEPT !.body = @ \o SubSeq(buf, take + 1, Len(buf))]]
    ELSE [err |-> "none", q |-> [q EXCEPT !.body = @ \o buf]]

(* a deadline counted from the start of the read *)
last_received_at_start(last_received, now, length) == last_received

(* "if iteration_buffer.length > 0: last_received = time.time()" *)
update_last_received(last_received, now, length) ==
    IF length > 0 THEN now ELSE last_received

(* the call record of a read under way *)
Reading(pc, q, now, last_received, asked, got, err) ==
    [call EXCEPT !.op = "read", !.ret = q, !.err = err,
                 !.args = [pc |-> pc, now |-> now, last_received |-> last_received,
                           asked |-> asked, got |-> got]]

(* a packet with body data "A", zero byte, "B", and a packet that is a     *)
(* header only; no byte of them is above 127, so that a header taken from  *)
(* the middle of the stream still indicates a length below 2^31            *)
DataPacket(fam) ==
    LET q == build(fam, IF fam = "fesl" THEN <<102, 115, 121, 115>> ELSE <<71, 68, 65, 84>>,
                   <<65, 0, 66>>, IF fam = "fesl" THEN "Ping" ELSE "OKResponse", {}).q
    IN q.header \o q.body

HeaderOnlyPacket(fam) ==
    set_length_indicators(
        BytePacket(IF fam = "fesl" THEN <<102, 115, 121, 115, 0, 0, 0, 0, 0, 0, 0, 0>>
                   ELSE <<80, 73, 78, 71, 0, 0, 0, 0, 0, 0, 0, 0>>, << >>)).header

(* what the server sends: whole packets one after the other, a packet cut  *)
(* short with or without the connection being closed, a header with an     *)
(* unknown type tag, a header indicating a length of 5, nothing            *)
ReadStreams(fam) ==
    LET p == DataPacket(fam)
        h == HeaderOnlyPacket(fam)
    IN {p, p \o h, h \o p, p \o p, h \o h,
        SubSeq(p, 1, 14), SubSeq(p, 1, 14) \o <<-1>>, SubSeq(p, 1, 7) \o <<-1>>,
        <<-1>>, << >>,
        <<110, 111, 110, 101>> \o SubSeq(p, 5, Len(p)),
        SubSeq(p, 1, 8) \o <<0, 0, 0, 5>> \o SubSeq(p, 13, Len(p))}

ReadInit ==
    /\ Init
    /\ track_steps = FALSE

(* the server sends, once, before the client reads *)
ReadServe ==
    /\ Idle
    /\ served = 0
    /\ inbox = << >>
    /\ \E s \in ReadStreams(family) : inbox' = s
    /\ served' = 1
    /\ UNCHANGED <<tasks, family, track_steps, transaction_id, completed_steps,
                   is_connected, maxSent, minted, call>>

(* Connection.read up to its loop: connect on first use, an empty packet   *)
ReadStart ==
    /\ Idle
    /\ served = 1
    /\ is_connected' = TRUE
    /\ call' = [Reading("loop", BytePacket(<< >>, << >>), 0, 0, 0, 0, "none")
                   EXCEPT !.pre = [tid |-> transaction_id, steps |-> completed_steps,
                                   inbox |-> inbox, maxSent |-> maxSent,
                                   conn |-> is_connected]]
    /\ UNCHANGED <<tasks, family, track_steps, transaction_id, completed_steps,
                   inbox, served, maxSent, minted>>

(* one iteration of the loop, and what follows the loop when it ends *)
ReadIteration ==
    /\ call.op = "read"
    /\ call.args.pc = "loop"
    /\ \E o \in RecvOutcomes(inbox, buflen(call.ret)) :
          LET now == call.args.now + o.d
              asked == buflen(call.ret)
              r == read_iteration(family, call.ret, SubSeq(inbox, 1, o.k))
              last_received == update_last_received(call.args.last_received, now, o.k)
              timed_out == now > last_received + READ_TIMEOUT
          IN /\ now <= MaxNow
             /\ inbox' = SubSeq(inbox, o.k + 1, Len(inbox))
             /\ call' =
                  IF o.kind = "timeout"
                  THEN Reading("raised", call.ret, now, call.args.last_received,
                               asked, 0, "TimeoutError")
                  ELSE IF o.kind = "error"
                  THEN Reading("raised", call.ret, now, call.args.last_received,
                               asked, 0, "ConnectionError")
                  ELSE IF r.err # "none"
                  THEN Reading("raised", r.q, now, call.args.last_received, asked, o.k, r.err)
                  ELSE IF buflen(r.q) > 0 /\ ~timed_out
                  THEN Reading("loop", r.q, now, last_received, asked, o.k, "none")
                  ELSE IF timed_out
                  THEN Reading("raised", r.q, now, last_received, asked, o.k, "TimeoutError")
                  ELSE IF ~validate_body(r.q)
                  THEN Reading("raised", r.q, now, last_received, asked, o.k, "Error")
                  ELSE Reading("done", r.q, now, last_received, asked, o.k, "none")
    /\ UNCHANGED <<tasks, family, track_steps, transaction_id, completed_steps,
                   is_connected, served, maxSent, minted>>

(* the caller takes the packet or the exception *)
ReadReturn ==
    /\ call.op = "read"
    /\ call.args.pc \in {"done", "raised"}
    /\ call' = NoCall
    /\ UNCHANGED <<tasks, family, track_steps, transaction_id, completed_steps,
                   is_connected, inbox, served, maxSent, minted>>

ReadNext ==
    \/ ReadServe
    \/ ReadStart
    \/ ReadIteration
    \/ ReadReturn

SpecRead == ReadInit /\ [][ReadNext]_vars

(* the length of the header before the last recv of the read under way *)
HeaderBefore ==
    IF Len(call.ret.body) > 0 \/ (Len(call.ret.header) = HEADER_LENGTH /\ call.args.got = 0)
    THEN HEADER_LENGTH
    ELSE Len(call.ret.header) - call.args.got

(* C26: Connection.read frames packets by the header's length field only.  *)
(* However the byte stream is split across recv results, a read first      *)
(* completes the 12-byte header and validates it, each recv asks for       *)
(* exactly the bytes still missing from the header or, after it, from the  *)
(* indicated body length, the bytes taken from the stream are those of the *)
(* packet and none of the following packet, and the packet returned has an *)
(* indicated length of 12 plus the length of its body, the body being      *)
(* empty when the indicated length is 12.                                  *)
C26_FramedByLengthField ==
    (call.op = "read" /\ call.args.asked > 0) =>
        /\ call.pre.inbox = call.ret.header \o call.ret.body \o inbox
        /\ call.args.got <= call.args.asked
        /\ call.args.asked =
              IF HeaderBefore < HEADER_LENGTH THEN HEADER_LENGTH - HeaderBefore
              ELSE indicated_body_length(call.ret) - (Len(call.ret.body) - call.args.got)
        /\ Len(call.ret.body) > 0 =>
              /\ Len(call.ret.header) = HEADER_LENGTH
              /\ validate_header(family, call.ret)
        /\ call.args.pc = "done" =>
              /\ Len(call.ret.header) = HEADER_LENGTH
              /\ validate_header(family, call.ret)
              /\ indicated_length(call.ret) = 12 + Len(call.ret.body)
              /\ indicated_length(call.ret) = 12 => call.ret.body = << >>

(* a packet whose body holds a zero byte in its middle is returned whole,  *)
(* its last byte received on its own, and the header-only packet sent      *)
(* after it is still to be read                                            *)
C26_Witness ==
    /\ call.op = "read" /\ call.args.pc = "done"
    /\ call.ret.body = <<65, 0, 66, 10, 0>>
    /\ call.args.got = 1
    /\ inbox = HeaderOnlyPacket(family)
    /\ call.pre.inbox = DataPacket(family) \o HeaderOnlyPacket(family)

(* C27: the read timeout measures progress, not total read time.  An       *)
(* iteration of Connection.read that received at least one byte moves the  *)
(* deadline forward and never ends in TimeoutError, so a read that keeps    *)
(* receiving bytes goes on however long it takes; TimeoutError is raised    *)
(* only after no byte was received for the timeout, and a read still under  *)
(* way has never been without bytes for longer than the timeout.           *)
C27_TimeoutMeasuresProgress ==
    call.op = "read" =>
        /\ call.args.got > 0 =>
              /\ call.err # "TimeoutError"
              /\ call.args.pc \in {"loop", "done"} =>
                    call.args.last_received = call.args.now
        /\ call.err = "TimeoutError" =>
              /\ call.args.got = 0
              /\ call.args.now - call.args.last_received >= READ_TIMEOUT
        /\ call.args.pc = "loop" =>
              call.args.now - call.args.last_received <= READ_TIMEOUT

(* a read that took more than twice the timeout and returned its packet *)
C27_Witness ==
    /\ call.op = "read" /\ call.args.pc = "done" /\ call.err = "none"
    /\ call.args.now > 2 * READ_TIMEOUT
    /\ call.ret.body = <<65, 0, 66, 10, 0>>

----------------------------------------------------------------------------
(* Transport errors: writes, reads and wrapped reads on one connection,    *)
(* any send and any receive of which may fail.                             *)

TransportFails == {0, 1, 2}

TransportWrite ==
    /\ \E sf \in {0, 1} :
          FinishArgs("write", [sf |-> sf, rf |-> 0],
                     IF family = "fesl" THEN ping(Start(sf)) ELSE theater_ping(Start(sf)))

TransportRead ==
    /\ \E rf \in {0, 1} :
          FinishArgs("read", [sf |-> 0, rf |-> rf],
                     connection_read([Start(0) EXCEPT !.recvfail = rf]))

TransportWrappedRead ==
    /\ \E tid \in {0, transaction_id}, sf \in TransportFails, rf \in TransportFails :
          FinishArgs("wrapped_read", [sf |-> sf, rf |-> rf],
                     wrapped_read(family, [Start(sf) EXCEPT !.recvfail = rf], tid))

TransportNext ==
    \/ Return
    \/ ServerSend
    \/ TransportWrite
    \/ TransportRead
    \/ TransportWrappedRead

SpecTransport == Init /\ [][TransportNext]_vars

FailedWrites(io) == {i \in 1..Len(io) : io[i].ev = "write" /\ ~io[i].ok}

(* C28: transport errors propagate and never trigger a reconnect.  A       *)
(* failed send raises ConnectionError, a failed receive ConnectionError, a *)
(* receive that gets nothing TimeoutError; after each of them the          *)
(* connection is still marked connected, the operation has opened no       *)
(* socket beyond the one of a first use, and the next write or read opens  *)
(* none.  A failed write inside an auto-respond handler ends wrapped_read  *)
(* with ConnectionError before any further packet is read.                 *)
C28_TransportErrorsPropagate ==
    call.op \in {"write", "read", "wrapped_read"} =>
        /\ FailedWrites(call.io) # {} =>
              /\ call.err = "ConnectionError"
              /\ FailedWrites(call.io) = {Len(call.io)}
        /\ (call.op = "write" /\ call.args.sf = 1) => call.err = "ConnectionError"
        /\ (call.op = "read" /\ call.args.rf = 1) => call.err = "ConnectionError"
        /\ (call.op = "read" /\ call.args.rf = 0 /\ call.pre.inbox = << >>) =>
              call.err = "TimeoutError"
        /\ call.err \in {"ConnectionError", "TimeoutError"} =>
              /\ is_connected
              /\ call.sockets = IF call.pre.conn THEN 0 ELSE 1
              /\ connection_write(Start(0), build_theater_ping_packet).sockets = 0
              /\ connection_read(Start(0)).sockets = 0

(* on a connection in use, a Theater wrapped_read reads a PING prompt, the *)
(* reply fails to send, and the response sent after the prompt is still    *)
(* unread                                                                  *)
C28_Witness ==
    /\ family = "theater" /\ call.op = "wrapped_read"
    /\ call.err = "ConnectionError"
    /\ call.pre.conn /\ call.sockets = 0 /\ is_connected
    /\ call.pre.inbox = <<TheaterPrompt, UserResponse(2)>>
    /\ inbox = <<UserResponse(2)>>
    /\ call.io[Len(call.io)] = WriteEv(build_theater_ping_packet, FALSE)

----------------------------------------------------------------------------
(* Leaving the context of a FESL client *)

MaxExitPackets == 4

CloseEv == Ev("close", NoPacket, 0, TRUE, "")

(* Connection.close *)
connection_close(c) ==
    [c EXCEPT !.conn = FALSE, !.io = Append(@, CloseEv)]

(* an __exit__ without the try around logout *)
fesl_exit_unguarded(c) ==
    The({ IF Ok(c1) THEN connection_close(c1) ELSE c1
          : c1 \in {logout(c)} })

(* FeslClient.__exit__ *)
fesl_exit(c) ==
    The({ IF c1.err \in {"ConnectionError", "TimeoutError"}
          THEN connection_close([c1 EXCEPT !.err = "none", !.ret = NoPacket])
          ELSE IF Ok(c1) THEN connection_close(c1)
          ELSE c1
          : c1 \in {logout(c)} })

ExitInit ==
    /\ Init
    /\ family = "fesl"

ExitSend ==
    /\ Idle
    /\ served < MaxExitPackets
    /\ \E p \in ServerPackets(family, transaction_id) : inbox' = Append(inbox, p)
    /\ served' = served + 1
    /\ call' = NoCall
    /\ UNCHANGED <<tasks, family, track_steps, transaction_id, completed_steps,
                   is_connected, maxSent, minted>>

ExitLogin ==
    /\ Finish("login", login(Start(0)))

Exit ==
    /\ \E sf \in {0, 1}, rf \in {0, 1}, re \in {"ConnectionError", "Error"} :
          FinishArgs("exit", [sf |-> sf, rf |-> rf, re |-> re],
                     fesl_exit([Start(sf) EXCEPT !.recvfail = rf, !.recverr = re]))

ExitNext ==
    \/ Return
    \/ ExitSend
    \/ ExitLogin
    \/ Exit

SpecExit == ExitInit /\ [][ExitNext]_vars

MaxKwargs == 2

(* Payload.destruct_path: path.split('.') *)
destruct_path(path) == Split(path, 46)

(* Payload.filter_by_path: the items whose path starts with the elements   *)
(* of path                                                                 *)
filter_by_path(data, path) ==
    SelectSeq(data, LAMBDA item :
        The({ Len(item_keys) >= Len(keys) /\ SubSeq(item_keys, 1, Len(keys)) = keys
              : item_keys \in {destruct_path(item[1])}, keys \in {destruct_path(path)} }))

(* Payload.remove: pops every item filter_by_path finds *)
remove(data, key) ==
    SelectSeq(data, LAMBDA item : item \notin Elems(filter_by_path(data, key)))

(* Payload.set of a bytes value at base level: whatever lies under the     *)
(* path is removed, then the value is stored (a new key of the dict, so    *)
(* the last item)                                                          *)
set(data, key, value) == Append(remove(data, key), <<key, value>>)

(* Payload.update on the empty payload of __init__: one set per keyword *)
RECURSIVE update(_, _)
update(data, kwargs) ==
    IF kwargs = << >> THEN data
    ELSE update(set(data, Head(kwargs)[1], Head(kwargs)[2]), Tail(kwargs))

(* bytes.partition(b'='): the parts before and after the first "=" *)
partition(line) ==
    IF \A i \in 1..Len(line) : line[i] # 61 THEN <<line, << >> >>
    ELSE LET i == CHOOSE k \in 1..Len(line) : line[k] = 61 /\ \A j \in 1..(k - 1) : line[j] # 61
         IN <<SubSeq(line, 1, i - 1), SubSeq(line, i + 1, Len(line))>>

(* Payload.__bytes__: the lines key=value, joined by "\n" *)
RECURSIVE payload_bytes(_)
payload_bytes(data) ==
    IF data = << >> THEN << >>
    ELSE IF Len(data) = 1 THEN data[1][1] \o <<61>> \o data[1][2]
    ELSE data[1][1] \o <<61>> \o data[1][2] \o <<10>> \o payload_bytes(Tail(data))

(* Payload.from_bytes: one set per line of data.split(b'\n') *)
from_bytes(data) ==
    update(<< >>, [i \in 1..Len(Split(data, 10)) |-> partition(Split(data, 10)[i])] \o << >>)

(* Payload.__eq__: equality of the dicts, which ignores the order *)
payload_eq(data, other) == Elems(data) = Elems(other)

(***************************************************************************)
(* SpecPayload: payloads with scalar (bytes) leaves are constructed from   *)
(* keyword arguments, serialised and parsed back.                          *)
(***************************************************************************)
PayloadKeys == {<< >>, <<97>>, <<98>>, <<97, 46, 98>>}
PayloadValues == {<< >>, <<120>>, <<120, 61, 121>>, <<120, 10, 121>>}

Kwargs ==
    { kw \in UNION { [1..n -> PayloadKeys \X PayloadValues] : n \in 0..MaxKwargs } :
        \A i \in 1..Len(kw), j \in 1..Len(kw) : i # j => kw[i][1] # kw[j][1] }

PayloadInit ==
    /\ Init
    /\ track_steps = FALSE

PayloadRoundTrip ==
    /\ Idle
    /\ \E kwargs \in Kwargs :
          FinishArgs("from_bytes",
                     [kwargs |-> kwargs],
                     The({ [Start(0) EXCEPT !.out = payload_bytes(p),
                                            !.ret = [p |-> p, parsed |-> from_bytes(payload_bytes(p))]]
                           : p \in {update(<< >>, kwargs \o << >>)} }))

PayloadNext == Return \/ PayloadRoundTrip

SpecPayload == PayloadInit /\ [][PayloadNext]_vars

(* C30: every payload with only scalar leaves, the empty payload and       *)
(* leaves with empty values included, is equal to the payload parsed from  *)
(* its serialisation: Payload.from_bytes(bytes(p)) == p.                   *)
C30_PayloadRoundTrip ==
    call.op = "from_bytes" => payload_eq(call.ret.parsed, call.ret.p)

(***************************************************************************)
(* Structures in a payload (payload.py): lists and maps are stored flat,   *)
(* as items path.0, path.1, ... with path.[] = length, or path.{key} with  *)
(* path.{} = length, and are put together again by get_list, get_map and   *)
(* get_dict.  A parsed value is a record [kind, v]: bytes, str, int and    *)
(* float leaves, lists (v a sequence of values) and dicts (v a sequence of *)
(* <<key, value>> items in insertion order).  An operation that can raise  *)
(* yields [err, v], err = "none" when it returns.  "[" = 91, "]" = 93,     *)
(* "{" = 123, "}" = 125.                                                   *)
(***************************************************************************)
ListIndicator == <<91, 93>>
MapIndicator == <<123, 125>>
MagicIndex == <<95, 105, 110, 100, 101, 120, 95>>

PyVal(kind, v) == [kind |-> kind, v |-> v]
Returns(v) == [err |-> "none", v |-> v]
Raises(err) == [err |-> err, v |-> << >>]

(* Payload.build_path: '.'.join(args) *)
RECURSIVE build_path(_)
build_path(keys) ==
    IF keys = << >> THEN << >>
    ELSE IF Len(keys) = 1 THEN keys[1]
    ELSE keys[1] \o <<46>> \o build_path(Tail(keys))

(* Payload.group_by_path: the items under path, grouped by the path plus   *)
(* the next path element, groups in the order of their first item          *)
group_by_path(data, path) ==
    The({ LET group_path(item) ==
                  build_path(Slice(destruct_path(item[1]), 0, Len(keys) + 1))
              firsts == SelectSeq([i \in 1..Len(items) |-> i] \o << >>,
                                  LAMBDA i : \A j \in 1..(i - 1) :
                                      group_path(items[j]) # group_path(items[i]))
          IN [k \in 1..Len(firsts) |->
                 [path |-> group_path(items[firsts[k]]),
                  items |-> SelectSeq(items, LAMBDA item :
                                group_path(item) = group_path(items[firsts[k]]))]] \o << >>
          : items \in {filter_by_path(data, path)}, keys \in {destruct_path(path)} })

(* Payload.determine_struct_type *)
determine_struct_type(groups, path) ==
    IF \E i \in 1..Len(groups) : groups[i].path = path \o <<46>> \o ListIndicator THEN "list"
    ELSE IF \E i \in 1..Len(groups) : groups[i].path = path \o <<46>> \o MapIndicator THEN "map"
    ELSE "struct"

(* Payload.has_values_at_path *)
has_values_at_path(data, path) == Len(group_by_path(data, path)) >= 1

(* Payload.strip_map_key: key.strip('{}') *)
RECURSIVE strip_map_key(_)
strip_map_key(key) ==
    IF key # << >> /\ Head(key) \in {123, 125} THEN strip_map_key(Tail(key))
    ELSE IF key # << >> /\ key[Len(key)] \in {123, 125}
    THEN strip_map_key(SubSeq(key, 1, Len(key) - 1))
    ELSE key

(* Payload.get_parse_map_key *)
get_parse_map_key(key, struct_type) ==
    IF struct_type = "list" /\ key # ListIndicator THEN MagicIndex
    ELSE IF struct_type = "map" /\ key # MapIndicator THEN strip_map_key(key)
    ELSE key

(* bytes.decode('utf8') succeeds: ASCII and two-byte sequences are told    *)
(* from bytes that cannot start or continue a character (the payloads of   *)
(* the model hold no longer sequences)                                     *)
RECURSIVE utf8_decodes(_)
utf8_decodes(b) ==
    IF b = << >> THEN TRUE
    ELSE IF b[1] < 128 THEN utf8_decodes(Tail(b))
    ELSE IF b[1] \in 194..223 /\ Len(b) >= 2 /\ b[2] \in 128..191
    THEN utf8_decodes(Tail(Tail(b)))
    ELSE FALSE

(* int(text) accepts: an optional sign and decimal digits (the model's     *)
(* texts hold no blanks or underscores)                                    *)
Unsigned(text) == IF text # << >> /\ text[1] \in {43, 45} THEN Tail(text) ELSE text
int_accepts(text) ==
    Unsigned(text) # << >> /\ \A i \in 1..Len(Unsigned(text)) : IsDigit(Unsigned(text)[i])
int_of(text) ==
    IF text # << >> /\ text[1] = 45 THEN 0 - int(Unsigned(text)) ELSE int(Unsigned(text))

(* float(text) accepts: an optional sign, decimal digits and at most one   *)
(* point with a digit on one side of it                                    *)
float_accepts(text) ==
    /\ \E i \in 1..Len(Unsigned(text)) : IsDigit(Unsigned(text)[i])
    /\ \A i \in 1..Len(Unsigned(text)) : IsDigit(Unsigned(text)[i]) \/ Unsigned(text)[i] = 46
    /\ Cardinality({i \in 1..Len(Unsigned(text)) : Unsigned(text)[i] = 46}) <= 1

(* Payload.unquote: quoted.strip('"'), then percent-decoding *)
RECURSIVE strip_quotes(_)
strip_quotes(text) ==
    IF text # << >> /\ Head(text) = 34 THEN strip_quotes(Tail(text))
    ELSE IF text # << >> /\ text[Len(text)] = 34
    THEN strip_quotes(SubSeq(text, 1, Len(text) - 1))
    ELSE text

(* Payload.decode_and_parse with parse_str, parse_int, parse_float: the    *)
(* UnicodeDecodeError and the ValueError are raised again as Error         *)
decode_and_parse(value, target) ==
    IF ~utf8_decodes(value) THEN Raises("Error")
    ELSE IF target = "str" THEN Returns(PyVal("str", unquote_to_bytes(strip_quotes(value))))
    ELSE IF target = "int"
    THEN IF int_accepts(value) THEN Returns(PyVal("int", int_of(value))) ELSE Raises("Error")
    ELSE IF float_accepts(value) THEN Returns(PyVal("float", value)) ELSE Raises("Error")

(* Payload.parse: a parse map is a function from keys to "str", "int",     *)
(* "float" or another type; None is the empty map                          *)
parse(key, value, struct_type, parse_map) ==
    The({ IF map_key \notin DOMAIN parse_map THEN Returns(PyVal("bytes", value))
          ELSE IF parse_map[map_key] \in {"str", "int", "float"}
          THEN decode_and_parse(value, parse_map[map_key])
          ELSE Returns(PyVal("bytes", value))
          : map_key \in {get_parse_map_key(key, struct_type)} })

(* dict.get and "key in dict" on a struct *)
Has(struct, key) == \E i \in 1..Len(struct) : struct[i][1] = key
At(struct, key) == struct[CHOOSE i \in 1..Len(struct) : struct[i][1] = key][2]

(* values[key] = value *)
Store(struct, key, value) ==
    IF Has(struct, key)
    THEN [i \in 1..Len(struct) |->
             IF struct[i][1] = key THEN <<key, value>> ELSE struct[i]] \o << >>
    ELSE Append(struct, <<key, value>>)

(* Payload.get_struct_length: int(data.get(indicator, b'-1').decode()) *)
get_struct_length(struct, indicator) ==
    IF ~Has(struct, indicator) THEN Returns(0 - 1)
    ELSE IF At(struct, indicator).kind # "bytes" THEN Raises("AttributeError")
    ELSE IF ~utf8_decodes(At(struct, indicator).v) THEN Raises("UnicodeDecodeError")
    ELSE IF ~int_accepts(At(struct, indicator).v) THEN Raises("ValueError")
    ELSE Returns(int_of(At(struct, indicator).v))

(* a struct_to_list that leaves out the indexes it does not find *)
struct_to_list_lenient(struct) ==
    The({ IF length.err # "none" THEN Raises(length.err)
          ELSE IF length.v = 0 - 1 THEN Raises("ParameterError")
          ELSE Returns(PyVal("list",
                   [k \in 1..Cardinality({i \in 0..(length.v - 1) : Has(struct, str_encode(i))}) |->
                       At(struct, str_encode(
                           CHOOSE i \in 0..(length.v - 1) :
                               /\ Has(struct, str_encode(i))
                               /\ Cardinality({j \in 0..(i - 1) : Has(struct, str_encode(j))}) = k - 1))]
                   \o << >>))
          : length \in {get_struct_length(struct, ListIndicator)} })

(* Payload.struct_to_list *)
struct_to_list(struct) ==
    The({ IF length.err # "none" THEN Raises(length.err)
          ELSE IF length.v = 0 - 1 THEN Raises("ParameterError")
          ELSE IF \E index \in 0..(length.v - 1) : ~Has(struct, str_encode(index))
          THEN Raises("Error")
          ELSE Returns(PyVal("list", [k \in 1..length.v |-> At(struct, str_encode(k - 1))] \o << >>))
          : length \in {get_struct_length(struct, ListIndicator)} })

(* Payload.struct_to_map *)
RECURSIVE strip_map_keys(_)
strip_map_keys(struct) ==
    IF struct = << >> THEN << >>
    ELSE The({ IF item[1] = MapIndicator THEN rest
               ELSE Store(rest, strip_map_key(item[1]), item[2])
               : item \in {struct[Len(struct)]},
                 rest \in {strip_map_keys(SubSeq(struct, 1, Len(struct) - 1))} })

struct_to_map(struct) ==
    The({ IF length.err # "none" THEN Raises(length.err)
          ELSE IF length.v = 0 - 1 THEN Raises("ParameterError")
          ELSE IF Len(struct) # length.v + 1 THEN Raises("Error")
          ELSE Returns(PyVal("dict", strip_map_keys(struct)))
          : length \in {get_struct_length(struct, MapIndicator)} })

(* Payload.get_struct: one entry per group under path; a group of several  *)
(* items is a nested struct and is converted to a list or a map when it    *)
(* holds the length entry, a group of one item is a leaf and is parsed.    *)
(* The groups are handled in order and the first exception ends the call.  *)
RECURSIVE get_struct(_, _, _)
get_struct(data, path, parse_map) ==
    The({ LET Entry(group) ==
                  The({ IF Len(group_keys) = 1 /\ group_keys[1] = path
                        THEN [err |-> "Error", key |-> << >>, v |-> << >>]
                        ELSE The({
                          IF Len(group.items) > 1
                          THEN The({ IF struct.err # "none" THEN [err |-> struct.err, key |-> target_key, v |-> << >>]
                                     ELSE The({ [err |-> r.err, key |-> target_key, v |-> r.v]
                                                : r \in { IF Has(struct.v, ListIndicator) THEN struct_to_list(struct.v)
                                                          ELSE IF Has(struct.v, MapIndicator) THEN struct_to_map(struct.v)
                                                          ELSE Returns(PyVal("dict", struct.v)) } })
                                     : struct \in {get_struct(data, group.path, parse_map)} })
                          ELSE The({ [err |-> r.err, key |-> target_key, v |-> r.v]
                                     : r \in {parse(target_key, group.items[1][2], struct_type, parse_map)} })
                          : target_key \in {build_path(Slice(group_keys, Len(keys), Len(group_keys)))} })
                        : group_keys \in {destruct_path(group.path)} })
              entries == [i \in 1..Len(groups) |-> Entry(groups[i])] \o << >>
              raised == {i \in 1..Len(groups) : entries[i].err # "none"}
          IN IF raised # {}
             THEN Raises(entries[CHOOSE i \in raised : \A j \in raised : i <= j].err)
             ELSE Returns([i \in 1..Len(groups) |-> <<entries[i].key, entries[i].v>>] \o << >>)
          : keys \in {destruct_path(path)},
            groups \in {group_by_path(data, path)},
            struct_type \in {determine_struct_type(group_by_path(data, path), path)} })

(* Payload.get_list and Payload.get_map *)
get_list(data, key, default, parse_map) ==
    IF ~has_values_at_path(data, key) THEN Returns(default)
    ELSE The({ IF as_struct.err # "none" THEN Raises(as_struct.err)
               ELSE struct_to_list(as_struct.v)
               : as_struct \in {get_struct(data, key, parse_map)} })

get_map(data, key, default, parse_map) ==
    IF ~has_values_at_path(data, key) THEN Returns(default)
    ELSE The({ IF as_struct.err # "none" THEN Raises(as_struct.err)
               ELSE struct_to_map(as_struct.v)
               : as_struct \in {get_struct(data, key, parse_map)} })

(***************************************************************************)
(* SpecStruct: a payload holding items under the key "a" (a length entry   *)
(* a.[] and/or a.{}, indexed entries, braced entries and a nested entry)   *)
(* is read with get_list and get_map.                                      *)
(***************************************************************************)
KeyA == <<97>>
Under(rest) == KeyA \o <<46>> \o rest

StructLengths == {<<48>>, <<49>>, <<50>>, <<120>>}
StructChoices ==
    << {Under(ListIndicator)} \X StructLengths,
       {<<Under(<<48>>), <<118>>>>},
       {<<Under(<<49>>), <<119>>>>},
       {Under(MapIndicator)} \X StructLengths,
       {<<Under(<<123, 107, 125>>), <<118>>>>},
       {<<Under(<<123, 106, 125>>), <<119>>>>},
       {<<Under(<<48, 46, 120>>), <<49>>>>},
       {<<Under(<<48, 46, 121>>), <<50>>>>} >>

(* the keyword arguments: for each choice in turn, nothing or one item *)
RECURSIVE StructKwargs(_)
StructKwargs(n) ==
    IF n = 0 THEN {<< >>}
    ELSE { kw \o tail : kw \in StructKwargs(n - 1),
                        tail \in {<< >>} \cup { <<item>> : item \in StructChoices[n] } }

StructInit ==
    /\ Init
    /\ track_steps = FALSE

GetList ==
    /\ Idle
    /\ \E kwargs \in StructKwargs(Len(StructChoices)) :
          FinishArgs("get_list",
                     [data |-> update(<< >>, kwargs)],
                     The({ [Start(0) EXCEPT !.err = r.err, !.ret = r.v]
                           : r \in {get_list(update(<< >>, kwargs), KeyA,
                                             PyVal("none", << >>), << >>)} }))

GetMap ==
    /\ Idle
    /\ \E kwargs \in StructKwargs(Len(StructChoices)) :
          FinishArgs("get_map",
                     [data |-> update(<< >>, kwargs)],
                     The({ [Start(0) EXCEPT !.err = r.err, !.ret = r.v]
                           : r \in {get_map(update(<< >>, kwargs), KeyA,
                                            PyVal("none", << >>), << >>)} }))

StructNext == Return \/ GetList \/ GetMap

SpecStruct == StructInit /\ [][StructNext]_vars

(* what the data of the call says about "a" *)
Announces(indicator, n) ==
    <<Under(indicator), str_encode(n)>> \in Elems(call.args.data)
PresentAt(index) ==
    \E item \in Elems(call.args.data) :
        Slice(destruct_path(item[1]), 0, 2) = <<KeyA, str_encode(index)>>
EntriesOfA ==
    { destruct_path(item[1])[2] : item \in Elems(call.args.data) } \ {MapIndicator}

payload_get_int(data, key, default) ==
    IF ~Has(data, key) THEN Returns(default)
    ELSE IF ~utf8_decodes(At(data, key)) THEN Raises("UnicodeDecodeError")
    ELSE IF ~int_accepts(At(data, key)) THEN Raises("ValueError")
    ELSE Returns(PyVal("int", int_of(At(data, key))))

(* Payload.get_float: float(value.decode(ENCODING)), nothing caught *)
payload_get_float(data, key, default) ==
    IF ~Has(data, key) THEN Returns(default)
    ELSE IF ~utf8_decodes(At(data, key)) THEN Raises("UnicodeDecodeError")
    ELSE IF ~float_accepts(At(data, key)) THEN Raises("ValueError")
    ELSE Returns(PyVal("float", At(data, key)))

(* Payload.get_dict *)
get_dict(data, key, default, parse_map) ==
    IF ~has_values_at_path(data, key) THEN Returns(default)
    ELSE The({ IF as_struct.err # "none" THEN Raises(as_struct.err)
               ELSE Returns(PyVal("dict", as_struct.v))
               : as_struct \in {get_struct(data, key, parse_map)} })

(***************************************************************************)
(* SpecParse: a payload with the two leaves a.k and a.j is read through    *)
(* get_int and get_float (key a.k) and through get_dict with a parse map   *)
(* for the leaf k.                                                         *)
(***************************************************************************)
KeyK == <<107>>
KeyJ == <<106>>

(* b'1', b'-5', b'1.5', b'value', b'', b'"a%20b"' and the non-UTF-8 b'\xac' *)
LeafValues ==
    {<<49>>, <<45, 53>>, <<49, 46, 53>>, <<118, 97, 108, 117, 101>>, << >>,
     <<34, 97, 37, 50, 48, 98, 34>>, <<172>>}
ParseTargets == {"str", "int", "float", "bool"}

LeafData(k, j) == update(<< >>, << <<Under(KeyK), k>>, <<Under(KeyJ), j>> >>)

ParseInit ==
    /\ Init
    /\ track_steps = FALSE

GetInt ==
    /\ Idle
    /\ \E k \in LeafValues, j \in LeafValues :
          FinishArgs("get_int",
                     [data |-> LeafData(k, j), target |-> "int"],
                     The({ [Start(0) EXCEPT !.err = r.err, !.ret = r.v]
                           : r \in {payload_get_int(LeafData(k, j), Under(KeyK),
                                                    PyVal("none", << >>))} }))

GetFloat ==
    /\ Idle
    /\ \E k \in LeafValues, j \in LeafValues :
          FinishArgs("get_float",
                     [data |-> LeafData(k, j), target |-> "float"],
                     The({ [Start(0) EXCEPT !.err = r.err, !.ret = r.v]
                           : r \in {payload_get_float(LeafData(k, j), Under(KeyK),
                                                      PyVal("none", << >>))} }))

GetDict ==
    /\ Idle
    /\ \E k \in LeafValues, j \in LeafValues, target \in ParseTargets :
          FinishArgs("get_dict",
                     [data |-> LeafData(k, j), target |-> target],
                     The({ [Start(0) EXCEPT !.err = r.err, !.ret = r.v]
                           : r \in {get_dict(LeafData(k, j), KeyA, PyVal("none", << >>),
                                             (KeyK :> target))} }))

ParseNext == Return \/ GetInt \/ GetFloat \/ GetDict

SpecParse == ParseInit /\ [][ParseNext]_vars

(* the leaf a.k of the call cannot be parsed as the type asked for *)
LeafUnparsable ==
    LET value == At(call.args.data, Under(KeyK))
    IN \/ call.args.target \in {"str", "int", "float"} /\ ~utf8_decodes(value)
       \/ call.args.target = "int" /\ ~int_accepts(value)
       \/ call.args.target = "float" /\ ~float_accepts(value)

(* C32: parse failures never silently coerce.  A leaf that cannot be       *)
(* parsed as the type requested for it, through a parse map entry or       *)
(* through a typed getter (get_int, get_float), raises the library's       *)
(* Error: the call returns neither the raw nor a default value and raises  *)
(* no other exception.                                                     *)
C32_ParseFailureRaisesError ==
    (call.op \in {"get_int", "get_float", "get_dict"} /\ LeafUnparsable)
        => call.err = "Error"

(***************************************************************************)
(* Dogtag records (buffer.py, client.py).  A Buffer is a byte cursor over  *)
(* the record: [data, index, byte_order]; it is read forwards only here    *)
(* (reverse() is never called on it).  A record is the 16-byte name, the   *)
(* 4-byte timestamp, the counters, the rank byte and a closing byte.       *)
(***************************************************************************)
Buffer(data, byte_order) == [data |-> data, index |-> 0, byte_order |-> byte_order]

(* Buffer.remaining *)
remaining(buffer) == Slice(buffer.data, buffer.index, Len(buffer.data))

(* Buffer.read: Error when the read goes beyond the data, else the bytes   *)
(* and the buffer shifted by length: [err, v, buffer]                      *)
buffer_read(buffer, length) ==
    IF buffer.index + length > Len(buffer.data)
    THEN [err |-> "Error", v |-> << >>, buffer |-> buffer]
    ELSE [err |-> "none", v |-> Slice(remaining(buffer), 0, length),
          buffer |-> [buffer EXCEPT !.index = @ + length]]

(* struct.unpack(byte_order + 'H', ...) *)
unpack_ushort(byte_order, b) ==
    IF byte_order = "<" THEN b[1] + 256 * b[2] ELSE 256 * b[1] + b[2]

(* Buffer.read_ushort *)
read_ushort(buffer) ==
    The({ IF r.err # "none" THEN [err |-> r.err, v |-> 0, buffer |-> r.buffer]
          ELSE [err |-> "none", v |-> unpack_ushort(buffer.byte_order, r.v), buffer |-> r.buffer]
          : r \in {buffer_read(buffer, 2)} })

(* Buffer.read_uchar: one byte read as an unsigned number *)
read_uchar(buffer) ==
    The({ IF r.err # "none" THEN [err |-> r.err, v |-> 0, buffer |-> r.buffer]
          ELSE [err |-> "none", v |-> r.v[1], buffer |-> r.buffer]
          : r \in {buffer_read(buffer, 1)} })

(* Buffer.read_float: four bytes read as a float32; the model keeps the    *)
(* bytes and not the number                                                *)
read_float(buffer) == buffer_read(buffer, 4)

NoTiers == {}

(* an extract_dogtags that reads the three counters as bronze, silver, gold *)
extract_dogtags_bronze_first(buffer) ==
    IF Len(remaining(buffer)) = 4
    THEN The({ [err |-> total.err, tiers |-> NoTiers, dogtags |-> total.v, buffer |-> total.buffer]
               : total \in {read_ushort(buffer)} })
    ELSE IF Len(remaining(buffer)) = 8
    THEN The({ [err |-> "none",
                tiers |-> {[bronze |-> bronze.v, silver |-> silver.v, gold |-> gold.v]},
                dogtags |-> bronze.v + silver.v + gold.v,
                buffer |-> gold.buffer]
               : gold \in {read_ushort(read_ushort(read_ushort(buffer).buffer).buffer)},
                 silver \in {read_ushort(read_ushort(buffer).buffer)},
                 bronze \in {read_ushort(buffer)} })
    ELSE [err |-> "Error", tiers |-> NoTiers, dogtags |-> 0, buffer |-> buffer]

(* FeslClient.extract_dogtags: by the number of bytes that remain *)
extract_dogtags(buffer) ==
    IF Len(remaining(buffer)) = 4
    THEN The({ [err |-> total.err, tiers |-> NoTiers, dogtags |-> total.v, buffer |-> total.buffer]
               : total \in {read_ushort(buffer)} })
    ELSE IF Len(remaining(buffer)) = 8
    THEN The({ [err |-> "none",
                tiers |-> {[bronze |-> bronze.v, silver |-> silver.v, gold |-> gold.v]},
                dogtags |-> bronze.v + silver.v + gold.v,
                buffer |-> bronze.buffer]
               : bronze \in {read_ushort(read_ushort(read_ushort(buffer).buffer).buffer)},
                 silver \in {read_ushort(read_ushort(buffer).buffer)},
                 gold \in {read_ushort(buffer)} })
    ELSE [err |-> "Error", tiers |-> NoTiers, dogtags |-> 0, buffer |-> buffer]

(* FeslClient.format_dogtags_response for one record: name, timestamp,     *)
(* dogtags and rank are read in this order and the first Error ends it     *)
NoRecord == [rank |-> 0, tiers |-> NoTiers, dogtags |-> 0]

format_dogtags_record(value, platform) ==
    The({ IF raw_name.err # "none" THEN [err |-> raw_name.err, v |-> NoRecord]
          ELSE The({
             IF days.err # "none" THEN [err |-> days.err, v |-> NoRecord]
             ELSE The({
                IF dogtags.err # "none" THEN [err |-> dogtags.err, v |-> NoRecord]
                ELSE The({
                   IF rank.err # "none" THEN [err |-> rank.err, v |-> NoRecord]
                   ELSE [err |-> "none",
                         v |-> [rank |-> rank.v, tiers |-> dogtags.tiers, dogtags |-> dogtags.dogtags]]
                   : rank \in {read_uchar(dogtags.buffer)} })
                : dogtags \in {extract_dogtags(days.buffer)} })
             : days \in {read_float(raw_name.buffer)} })
          : raw_name \in {buffer_read(Buffer(value, IF platform = "pc" THEN "<" ELSE ">"), 16)} })

(***************************************************************************)
(* SpecDogtags: records with every remainder of 0..MaxRemainder bytes      *)
(* after name and timestamp, and records cut short inside them, are        *)
(* decoded for a little-endian (pc) and a big-endian (ps3) platform.       *)
(***************************************************************************)
MaxRemainder == 9
RecordPrefix ==
    <<115, 111, 109, 101, 95, 112, 108, 97, 121, 101, 114, 95, 110, 97, 109, 101,
      0, 192, 71, 68>>
RemainderBytes == {0, 1, 2}
DogtagRecords ==
    { RecordPrefix \o rest :
        rest \in UNION { [1..n -> RemainderBytes] : n \in 0..MaxRemainder } }
    \cup { Slice(RecordPrefix, 0, n) : n \in {0, 10, 16, 19} }

DogtagsInit ==
    /\ Init
    /\ track_steps = FALSE

FormatDogtagsResponse ==
    /\ Idle
    /\ \E value \in DogtagRecords, platform \in {"pc", "ps3"} :
          FinishArgs("format_dogtags_response",
                     [value |-> value, platform |-> platform],
                     The({ [Start(0) EXCEPT !.err = r.err, !.ret = r.v]
                           : r \in {format_dogtags_record(value, platform)} }))

DogtagsNext == Return \/ FormatDogtagsResponse

SpecDogtags == DogtagsInit /\ [][DogtagsNext]_vars

(* the unsigned short at 0-based offset i of the record, in the byte order *)
(* of the platform                                                         *)
UshortAt(i) ==
    IF call.args.platform = "pc"
    THEN call.args.value[i + 1] + 256 * call.args.value[i + 2]
    ELSE 256 * call.args.value[i + 1] + call.args.value[i + 2]

ReadEvents(io) == SelectSeq(io, LAMBDA e : e.ev = "read")

(* C34: the session steps read their responses with a plain connection     *)
(* read, not with wrapped_read.  During hello(), connect() and             *)
(* authenticate() no wrapped_read is entered, the packets read are the     *)
(* packets that arrived, in order and none skipped, no reply is written in *)
(* answer to a packet read (the one MemCheck reply of hello() follows the  *)
(* recording of its step, whatever was read), and the packet recorded for  *)
(* a step is the packet that arrived first: for hello() the first of its   *)
(* two reads, for connect() and authenticate() the packet of their one     *)
(* read, be it a MemCheck, a Ping or a packet with a low transaction id.   *)
C34_SessionStepsReadPlainly ==
    call.op \in {"hello", "connect", "authenticate"} =>
        LET io == call.io
            reads == ReadEvents(io)
        IN /\ \A i \in DOMAIN io : io[i].ev \notin {"wrapped_read", "return"}
           /\ Len(reads) <= Len(call.pre.inbox)
           /\ \A i \in 1..Len(reads) : reads[i].pkt = call.pre.inbox[i]
           /\ \A i \in DOMAIN io :
                 (io[i].ev = "write" /\ IsReply(io[i].pkt)) =>
                     /\ call.op = "hello"
                     /\ i > 1
                     /\ io[i - 1] = StepEv("hello", call.pre.inbox[1])
           /\ \A i \in DOMAIN io :
                 io[i].ev = "step" =>
                     IF call.op = "hello"
                     THEN Len(reads) = 2 /\ io[i] = StepEv("hello", call.pre.inbox[1])
                     ELSE /\ i > 1
                          /\ io[i - 1].ev = "read"
                          /\ io[i].pkt = io[i - 1].pkt
                          /\ completed_steps[io[i].step] = io[i].pkt
           /\ (call.err = "none" /\ io # << >>) =>
                 /\ reads # << >>
                 /\ call.ret = (IF call.op = "hello" THEN call.pre.inbox[1]
                                ELSE call.pre.inbox[Len(reads)])
                 /\ completed_steps[IF call.op = "hello" THEN "hello"
                                    ELSE IF call.op = "connect" THEN "conn" ELSE "user"]
                       = call.ret

C34_Witness ==
    /\ call.op = "connect"
    /\ call.err = "none"
    /\ call.pre.inbox # << >>
    /\ call.pre.inbox[1] = TheaterPrompt
    /\ completed_steps["conn"] = TheaterPrompt
    /\ Writes(call.io) = <<WriteEv(build_conn_packet(call.pre.tid + 1), TRUE)>>

(* C35: logout() performs I/O only when step tracking is enabled and the   *)
(* login step is recorded.  In every other case (never logged in, already  *)
(* logged out, or step tracking disabled even after a successful login) it *)
(* mints no id, writes nothing, reads nothing, leaves the completed-steps  *)
(* map, the transaction counter and the connection as they were and        *)
(* returns None.                                                           *)
C35_LogoutOnlyWhenLoggedIn ==
    call.op = "logout" =>
        /\ call.io # << >> => (track_steps /\ "login" \in DOMAIN call.pre.steps)
        /\ ~(track_steps /\ "login" \in DOMAIN call.pre.steps) =>
              /\ call.io = << >>
              /\ call.err = "none"
              /\ call.ret = NoPacket
              /\ completed_steps = call.pre.steps
              /\ transaction_id = call.pre.tid
              /\ inbox = call.pre.inbox
              /\ is_connected = call.pre.conn

(* a logout after a successful login of a client that tracks no steps *)
C35_Witness ==
    /\ call.op = "logout"
    /\ ~track_steps
    /\ "login" \in DOMAIN call.pre.steps
    /\ call.io = << >>
    /\ "login" \in DOMAIN completed_steps

(***************************************************************************)
(* Theater transaction ids on the wire (packet.py: TheaterPacket.get_tid;  *)
(* client.py: Client.wrapped_read, TheaterClient.connect), with the        *)
(* packets as bytes.  The connection's queue holds byte packets here.      *)
(***************************************************************************)
(* TheaterClient.is_auto_respond_packet: packet.header.startswith(b'PING') *)
starts_with_ping(q) == Slice(q.header, 0, 4) = <<80, 73, 78, 71>>

(* a wrapped_read that returns the first packet that is no PING, whatever  *)
(* its id                                                                  *)
RECURSIVE theater_wrapped_read_unfiltered(_, _, _, _)
theater_wrapped_read_unfiltered(queue, tid, dropped, pings) ==
    IF queue = << >>
    THEN [err |-> "TimeoutError", ret |-> << >>, dropped |-> dropped, pings |-> pings, queue |-> queue]
    ELSE IF starts_with_ping(Head(queue))
    THEN theater_wrapped_read_unfiltered(Tail(queue), tid, dropped, pings + 1)
    ELSE [err |-> "none", ret |-> <<Head(queue)>>, dropped |-> dropped, pings |-> pings,
          queue |-> Tail(queue)]

(* Client.wrapped_read of the Theater client: a PING is answered and the   *)
(* next packet read, a packet whose get_tid() is below tid is dropped and  *)
(* the next packet read, any other packet is returned; an exception of     *)
(* get_tid, or of the read on an empty queue, ends the call.  The result:  *)
(* [err, ret (the packet returned, if any), dropped, pings (the replies    *)
(* written), queue (what is left)]                                         *)
RECURSIVE theater_wrapped_read(_, _, _, _)
theater_wrapped_read(queue, tid, dropped, pings) ==
    IF queue = << >>
    THEN [err |-> "TimeoutError", ret |-> << >>, dropped |-> dropped, pings |-> pings, queue |-> queue]
    ELSE IF starts_with_ping(Head(queue))
    THEN theater_wrapped_read(Tail(queue), tid, dropped, pings + 1)
    ELSE The({ IF t.err # "none"
               THEN [err |-> t.err, ret |-> << >>, dropped |-> dropped, pings |-> pings,
                     queue |-> Tail(queue)]
               ELSE IF t.v < tid
               THEN theater_wrapped_read(Tail(queue), tid, Append(dropped, Head(queue)), pings)
               ELSE [err |-> "none", ret |-> <<Head(queue)>>, dropped |-> dropped,
                     pings |-> pings, queue |-> Tail(queue)]
               : t \in {packet_get_tid("theater", Head(queue))} })

(* the response.connection.read() of TheaterClient.connect: the packet at  *)
(* the head of the queue, whatever it is                                   *)
theater_connect_read(queue) ==
    IF queue = << >>
    THEN [err |-> "TimeoutError", ret |-> << >>, dropped |-> << >>, pings |-> 0, queue |-> queue]
    ELSE [err |-> "none", ret |-> <<Head(queue)>>, dropped |-> << >>, pings |-> 0,
          queue |-> Tail(queue)]

(***************************************************************************)
(* SpecTid: the Theater server sends packets with and without a TID line,  *)
(* with TID values that are numbers, not alphanumeric, or alphanumeric but *)
(* no number, and PING packets; the client calls wrapped_read(tid) and     *)
(* connect().                                                              *)
(***************************************************************************)
MaxTidPackets == 3

(* LID=257, TID=1, LID=257\nTID=2, TID=3, TID=, TID=-1, TID=a1 *)
TidBodyData ==
    {<<76, 73, 68, 61, 50, 53, 55>>,
     <<84, 73, 68, 61, 49>>,
     <<76, 73, 68, 61, 50, 53, 55, 10, 84, 73, 68, 61, 50>>,
     <<84, 73, 68, 61, 51>>,
     <<84, 73, 68, 61>>,
     <<84, 73, 68, 61, 45, 49>>,
     <<84, 73, 68, 61, 97, 49>>}
TidPacketsSent ==
    { build("theater", <<71, 68, 65, 84>>, body_data, "OKResponse", {}).q : body_data \in TidBodyData }
    \cup { build("theater", <<80, 73, 78, 71>>, body_data, "OKResponse", {}).q
           : body_data \in {<< >>, <<84, 73, 68, 61, 48>>} }

(* the value of the line of the body that starts with TID=, if it is a     *)
(* decimal number: a set with that number, else the empty set              *)
NumericTid(q) ==
    LET lines == Split(get_data(q), 10)
        found == {i \in 1..Len(lines) : Slice(lines[i], 0, 4) = <<84, 73, 68, 61>>}
        first == lines[CHOOSE i \in found : \A j \in found : i <= j]
        value == Slice(first, 4, Len(first))
    IN IF found # {} /\ value # << >> /\ \A i \in 1..Len(value) : IsDigit(value[i])
       THEN {int(value)} ELSE {}

(* the TID value is not alphanumeric, or there is no TID line *)
NoAlnumTid(q) ==
    LET lines == Split(get_data(q), 10)
        found == {i \in 1..Len(lines) : Slice(lines[i], 0, 4) = <<84, 73, 68, 61>>}
        first == lines[CHOOSE i \in found : \A j \in found : i <= j]
    IN found = {} \/ ~isalnum(Slice(first, 4, Len(first)))

TidInit ==
    /\ Init
    /\ family = "theater"
    /\ track_steps = FALSE

TidSend ==
    /\ Idle
    /\ Len(inbox) < MaxTidPackets
    /\ \E q \in TidPacketsSent : inbox' = Append(inbox, q)
    /\ call' = NoCall
    /\ UNCHANGED <<tasks, family, track_steps, transaction_id, completed_steps,
                   is_connected, served, maxSent, minted>>

TidWrappedRead ==
    /\ Idle
    /\ \E tid \in 1..2 :
          FinishArgs("wrapped_read", [tid |-> tid],
                     The({ [Start(0) EXCEPT !.err = r.err, !.inbox = r.queue,
                                            !.ret = [ret |-> r.ret, dropped |-> r.dropped,
                                                     pings |-> r.pings]]
                           : r \in {theater_wrapped_read(inbox, tid, << >>, 0)} }))

TidConnect ==
    /\ Idle
    /\ \E tid \in 1..2 :
          FinishArgs("connect", [tid |-> tid],
                     The({ [Start(0) EXCEPT !.err = r.err, !.inbox = r.queue,
                                            !.ret = [ret |-> r.ret, dropped |-> r.dropped,
                                                     pings |-> r.pings]]
                           : r \in {theater_connect_read(inbox)} }))

TidNext == Return \/ TidSend \/ TidWrappedRead \/ TidConnect

SpecTid == TidInit /\ [][TidNext]_vars

(* C36 as stated: a Theater packet without a TID line, or with a TID value *)
(* that is not alphanumeric, has transaction id 0, so wrapped_read(tid)    *)
(* with tid >= 1 drops it unless its header starts with PING; and a        *)
(* Theater operation, wrapped_read or connect, only ever consumes packets  *)
(* that carry a TID line with a value not less than its own id.            *)
C36_OperationsConsumeOwnPackets ==
    call.op \in {"wrapped_read", "connect"} =>
        \A i \in 1..Len(call.ret.ret) :
            \E t \in NumericTid(call.ret.ret[i]) : t >= call.args.tid

(* C36, amended: a Theater packet without a TID line, or with a TID value  *)
(* that is not alphanumeric, has transaction id 0, so wrapped_read(tid)    *)
(* with tid >= 1 drops it unless its header starts with PING, which is     *)
(* answered instead; a packet that wrapped_read(tid) returns carries a TID *)
(* line with a number not less than tid, and every packet it dropped       *)
(* carries no such line.                                                   *)
C36_WrappedReadConsumesOwnPackets ==
    /\ \A i \in 1..Len(inbox) :
          NoAlnumTid(inbox[i]) => packet_get_tid("theater", inbox[i]) = [err |-> "none", v |-> 0]
    /\ call.op = "wrapped_read" =>
          /\ \A i \in 1..Len(call.ret.ret) :
                /\ ~starts_with_ping(call.ret.ret[i])
                /\ \E t \in NumericTid(call.ret.ret[i]) : t >= call.args.tid
          /\ \A i \in 1..Len(call.ret.dropped) :
                /\ ~starts_with_ping(call.ret.dropped[i])
                /\ \A t \in NumericTid(call.ret.dropped[i]) : t < call.args.tid
          /\ LET consumed == Len(call.pre.inbox) - Len(inbox)
             IN /\ call.ret.pings =
                      Cardinality({i \in 1..consumed : starts_with_ping(call.pre.inbox[i])})
                /\ \A i \in 1..consumed :
                      (NoAlnumTid(call.pre.inbox[i]) /\ ~starts_with_ping(call.pre.inbox[i]))
                          => \E j \in 1..Len(call.ret.dropped) :
                                call.ret.dropped[j] = call.pre.inbox[i]

(* a packet without a TID line was dropped and the packet after it returned *)
C36_Witness ==
    /\ call.op = "wrapped_read"
    /\ call.args.tid = 2
    /\ call.err = "none"
    /\ Len(call.ret.dropped) = 1
    /\ NumericTid(call.ret.dropped[1]) = {}
    /\ NoAlnumTid(call.ret.dropped[1])
    /\ Len(call.ret.ret) = 1
    /\ NumericTid(call.ret.ret[1]) = {3}

(***************************************************************************)
(* Transmission types of received headers (packet.py:                      *)
(* FeslPacket.get_transmission_type, TheaterPacket.get_transmission_type). *)
(***************************************************************************)
(* a get_transmission_type that knows no Theater error indicators *)
get_transmission_type_without_errors(fam, q) ==
    IF fam = "fesl"
    THEN IF Slice(q.header, 4, 5) = <<0>> THEN Returns("Ping")
         ELSE IF Slice(q.header, 4, 5) = <<128>> THEN Returns("SinglePacketResponse")
         ELSE IF Slice(q.header, 4, 5) = <<176>> THEN Returns("MultiPacketResponse")
         ELSE IF Slice(q.header, 4, 5) = <<192>> THEN Returns("SinglePacketRequest")
         ELSE IF Slice(q.header, 4, 5) = <<240>> THEN Returns("MultiPacketRequest")
         ELSE Raises("Error")
    ELSE IF Slice(q.header, 4, 8) = <<64, 0, 0, 0>> THEN Returns("Request")
         ELSE IF Slice(q.header, 4, 8) = <<0, 0, 0, 0>> THEN Returns("OKResponse")
         ELSE Raises("Error")

(* FeslPacket.get_transmission_type and TheaterPacket.get_transmission_type *)
get_transmission_type(fam, q) ==
    IF fam = "fesl"
    THEN IF Slice(q.header, 4, 5) = <<0>> THEN Returns("Ping")
         ELSE IF Slice(q.header, 4, 5) = <<128>> THEN Returns("SinglePacketResponse")
         ELSE IF Slice(q.header, 4, 5) = <<176>> THEN Returns("MultiPacketResponse")
         ELSE IF Slice(q.header, 4, 5) = <<192>> THEN Returns("SinglePacketRequest")
         ELSE IF Slice(q.header, 4, 5) = <<240>> THEN Returns("MultiPacketRequest")
         ELSE Raises("Error")
    ELSE IF Slice(q.header, 4, 8) = <<64, 0, 0, 0>> THEN Returns("Request")
         ELSE IF Slice(q.header, 4, 8) = <<0, 0, 0, 0>> THEN Returns("OKResponse")
         ELSE IF Slice(q.header, 4, 8) \in VALID_HEADER_ERROR_INDICATORS
         THEN Returns("ErrorResponse")
         ELSE Raises("Error")

(***************************************************************************)
(* SpecTransmission: get_transmission_type is asked of headers that        *)
(* validate_header accepts and of headers it rejects.                      *)
(***************************************************************************)
TransmissionInit ==
    /\ Init
    /\ track_steps = FALSE

GetTransmissionType ==
    /\ Idle
    /\ \E header \in Headers(family) :
          FinishArgs("get_transmission_type",
                     [header |-> header,
                      valid |-> validate_header(family, BytePacket(header, << >>))],
                     The({ [Start(0) EXCEPT !.err = r.err, !.ret = r.v]
                           : r \in {get_transmission_type(family, BytePacket(header, << >>))} }))

TransmissionNext == Return \/ GetTransmissionType

SpecTransmission == TransmissionInit /\ [][TransmissionNext]_vars

(* C37: every header accepted by validate_header has a decodable           *)
(* transmission type.  For both families, if validate_header succeeds then *)
(* get_transmission_type returns a value of the family's enumeration and   *)
(* does not raise, so its 'Unknown packet transmission type' error cannot  *)
(* occur for the packets Connection.read returns.                          *)
C37_AcceptedHeaderHasType ==
    (call.op = "get_transmission_type" /\ call.args.valid) =>
        /\ call.err = "none"
        /\ call.ret \in (IF family = "fesl" THEN FeslTransmissionType
                         ELSE TheaterTransmissionType)

(* an accepted Theater error header *)
C37_Witness ==
    /\ call.op = "get_transmission_type"
    /\ family = "theater"
    /\ call.args.valid
    /\ Slice(call.args.header, 4, 8) \in VALID_HEADER_ERROR_INDICATORS
    /\ call.err = "none"
    /\ call.ret = "ErrorResponse"

(***************************************************************************)
(* The connection flag and the socket.  The outcome of the attempt to      *)
(* connect is the environment's: the host does not resolve, the socket     *)
(* times out, the socket is refused, or the socket connects.               *)
(***************************************************************************)
ConnectOutcomes == {"connected", "unresolved", "timeout", "refused"}

(* Connection: is_connected is False on a new object *)
connection_init(c) == [c EXCEPT !.conn = FALSE, !.inbox = << >>]

(* a connect that opens a socket whether or not the connection is connected *)
connection_connect_always(c, outcome) ==
    IF outcome = "unresolved" THEN Raise(c, "ConnectionError")
    ELSE IF outcome = "timeout"
    THEN [Raise(c, "TimeoutError") EXCEPT !.conn = FALSE, !.sockets = @ + 1]
    ELSE IF outcome = "refused"
    THEN [Raise(c, "ConnectionError") EXCEPT !.conn = FALSE, !.sockets = @ + 1]
    ELSE [c EXCEPT !.conn = TRUE, !.sockets = @ + 1]

(* Connection.connect with the outcome of its attempt: nothing when the    *)
(* connection is marked connected; ConnectionError before any socket when  *)
(* the host does not resolve; otherwise a new socket, and TimeoutError or  *)
(* ConnectionError with the flag False when the socket does not connect    *)
connection_connect_with(c, outcome) ==
    IF c.conn THEN c
    ELSE IF outcome = "unresolved" THEN Raise(c, "ConnectionError")
    ELSE IF outcome = "timeout"
    THEN [Raise(c, "TimeoutError") EXCEPT !.conn = FALSE, !.sockets = @ + 1]
    ELSE IF outcome = "refused"
    THEN [Raise(c, "ConnectionError") EXCEPT !.conn = FALSE, !.sockets = @ + 1]
    ELSE connection_connect(c)

(* Connection.write and Connection.read with the outcome of the connect    *)
(* they make when the connection is not connected                          *)
connection_write_with(c, p, outcome) ==
    connection_write(connection_connect_with(c, outcome), p)

connection_read_with(c, outcome) ==
    connection_read(connection_connect_with(c, outcome))

ConnectionNew ==
    /\ Idle
    /\ FinishArgs("new", [sf |-> 0, rf |-> 0, outcome |-> "connected"],
                  connection_init(Start(0)))

ConnectionConnect ==
    /\ Idle
    /\ \E o \in ConnectOutcomes :
          FinishArgs("connect", [sf |-> 0, rf |-> 0, outcome |-> o],
                     connection_connect_with(Start(0), o))

ConnectionWrite ==
    /\ Idle
    /\ \E o \in ConnectOutcomes, sf \in {0, 1} :
          FinishArgs("write", [sf |-> sf, rf |-> 0, outcome |-> o],
                     connection_write_with(Start(sf), build_ping_packet, o))

ConnectionRead ==
    /\ Idle
    /\ \E o \in ConnectOutcomes, rf \in {0, 1} :
          FinishArgs("read", [sf |-> 0, rf |-> rf, outcome |-> o],
                     connection_read_with([Start(0) EXCEPT !.recvfail = rf], o))

ConnectionClose ==
    /\ Idle
    /\ FinishArgs("close", [sf |-> 0, rf |-> 0, outcome |-> "connected"],
                  connection_close(Start(0)))

ConnectionNext ==
    \/ Return
    \/ ServerSend
    \/ ConnectionNew
    \/ ConnectionConnect
    \/ ConnectionWrite
    \/ ConnectionRead
    \/ ConnectionClose

SpecConnection == Init /\ [][ConnectionNext]_vars

(* C38: the flag follows the socket.  A new connection and a closed one    *)
(* are not connected.  connect, write and read open no socket and leave    *)
(* the flag set when the connection is connected, whatever becomes of the  *)
(* send or the receive; when it is not connected they make one attempt to  *)
(* connect, the flag is set exactly when that attempt connects, and a      *)
(* failed attempt raises before anything is sent or received.              *)
C38_FlagFollowsSocket ==
    /\ call.op \in {"new", "close"} => ~is_connected
    /\ call.op \in {"connect", "write", "read"} =>
          IF call.pre.conn
          THEN /\ call.sockets = 0
               /\ is_connected
               /\ call.op = "connect" => call.err = "none" /\ call.io = << >>
          ELSE /\ call.sockets = (IF call.args.outcome = "unresolved" THEN 0 ELSE 1)
               /\ is_connected <=> call.args.outcome = "connected"
               /\ call.args.outcome # "connected" =>
                     /\ call.err = (IF call.args.outcome = "timeout"
                                    THEN "TimeoutError" ELSE "ConnectionError")
                     /\ call.io = << >>

C38_Witness ==
    /\ call.op \in {"write", "read"}
    /\ ~call.pre.conn
    /\ call.pre.inbox # << >>
    /\ call.sockets = 1
    /\ is_connected
    /\ call.err = "none"

(***************************************************************************)
(* Lists in a payload.  A list value is a sequence of bytes values; its    *)
(* elements are stored under key.0, key.1, ... and its length under        *)
(* key.[] (indices and lengths below ten, one digit each).                 *)
(***************************************************************************)
build_list_length_path(path) == path \o <<46>> \o ListIndicator

(* Payload.set of a list value at base level: whatever lies under the path *)
(* is removed, the elements are stored in order and the length after them  *)
set_list(data, key, value) ==
    set(remove(data, key)
            \o ([i \in 1..Len(value) |-> <<key \o <<46, 48 + (i - 1)>>, value[i]>>] \o << >>),
        build_list_length_path(key),
        <<48 + Len(value)>>)

(* Payload.update and Payload.__init__ with list values *)
RECURSIVE update_list(_, _)
update_list(data, kwargs) ==
    IF kwargs = << >> THEN data
    ELSE update_list(set_list(data, Head(kwargs)[1], Head(kwargs)[2]), Tail(kwargs))

(* Payload.__add__: a new payload of the items of the one, updated with    *)
(* the items of the other, one base-level set per flat key                 *)
add(data, other) == update(update(<< >>, data), other)

(* Payload.__iadd__: dict.update of the one with the items of the other *)
RECURSIVE iadd(_, _)
iadd(data, other) ==
    IF other = << >> THEN data
    ELSE iadd(Store(data, Head(other)[1], Head(other)[2]), Tail(other))

MaxListLen == 2

ListValues == UNION { [1..n -> {<<120>>, <<121>>}] : n \in 0..MaxListLen }

ListInit ==
    /\ Init
    /\ track_steps = FALSE

ListSet ==
    /\ Idle
    /\ \E a \in ListValues, b \in ListValues :
          FinishArgs("set", [a |-> a, b |-> b],
                     [Start(0) EXCEPT
                        !.out = set_list(update_list(<< >>, << <<KeyA, a>> >>), KeyA, b)])

ListUpdate ==
    /\ Idle
    /\ \E a \in ListValues, b \in ListValues :
          FinishArgs("update", [a |-> a, b |-> b],
                     [Start(0) EXCEPT
                        !.out = update_list(update_list(<< >>, << <<KeyA, a>> >>),
                                            << <<KeyA, b>> >>)])

ListAdd ==
    /\ Idle
    /\ \E a \in ListValues, b \in ListValues :
          FinishArgs("add", [a |-> a, b |-> b],
                     [Start(0) EXCEPT
                        !.out = add(update_list(<< >>, << <<KeyA, a>> >>),
                                    update_list(<< >>, << <<KeyA, b>> >>))])

ListIAdd ==
    /\ Idle
    /\ \E a \in ListValues, b \in ListValues :
          FinishArgs("iadd", [a |-> a, b |-> b],
                     [Start(0) EXCEPT
                        !.out = iadd(update_list(<< >>, << <<KeyA, a>> >>),
                                     update_list(<< >>, << <<KeyA, b>> >>))])

ListNext == Return \/ ListSet \/ ListUpdate \/ ListAdd \/ ListIAdd

SpecList == ListInit /\ [][ListNext]_vars

(* the list stored under key is consistent: the keys under it are its      *)
(* length and exactly the indices below the length                         *)
ListConsistent(data, key) ==
    Has(data, build_list_length_path(key)) =>
        { item[1] : item \in Elems(filter_by_path(data, key)) }
            = {build_list_length_path(key)}
              \cup { key \o <<46, 48 + i>>
                     : i \in 0..(At(data, build_list_length_path(key))[1] - 48 - 1) }

(* C39: after construction followed by set, update, + or +=, every list    *)
(* stored in the payload is consistent: the value of path.[] is the number *)
(* of indexed entries under path, their indices are exactly 0..n-1, and    *)
(* nothing of a list stored before is left under the key.                  *)
C39_ListsConsistent ==
    call.op \in {"set", "update", "add", "iadd"} => ListConsistent(call.out, KeyA)

(***************************************************************************)
(* The Rome Theater client.  The Rome server answers a GLST request with   *)
(* a valid GLST packet and its GDAT packets whatever the lobby, and a GDAT *)
(* request for a missing server with GDAT and GDET packets that lack the   *)
(* details; the client compares what it read with what it asked for.       *)
(***************************************************************************)

(* RomeTheaterClient.is_glst_error_response: the error, "none" without *)
is_glst_error_response(servers, lobby_id) ==
    IF \E i \in 1..Len(servers) :
          "LID" \notin DOMAIN servers[i].body \/ servers[i].body["LID"] # lobby_id
    THEN "LobbyNotFoundError"
    ELSE "none"

(* RomeTheaterClient.is_gdat_error_response *)
is_gdat_error_response(gdat, kwargs) ==
    IF "LID" \notin DOMAIN gdat.body /\ "LID" \in DOMAIN kwargs
    THEN "ServerNotFoundError"
    ELSE IF "LID" \in DOMAIN kwargs /\ gdat.body["LID"] # kwargs["LID"]
    THEN "ServerNotFoundError"
    ELSE IF "LID" \notin DOMAIN gdat.body /\ "UID" \in DOMAIN kwargs
    THEN "PlayerNotFoundError"
    ELSE "none"

(* a get_servers that compares whatever was read, a failed read or not *)
rome_get_servers_checking_partial(c, lobby_id) ==
    The({ IF c1.err \notin {"none", "TimeoutError"} THEN c1
          ELSE IF is_glst_error_response(c1.out, lobby_id) # "none"
          THEN [c1 EXCEPT !.err = is_glst_error_response(c1.out, lobby_id)]
          ELSE c1
          : c1 \in {get_servers(c, lobby_id)} })

(* RomeTheaterClient.get_servers *)
rome_get_servers(c, lobby_id) ==
    The({ IF ~Ok(c1) THEN c1
          ELSE IF is_glst_error_response(c1.out, lobby_id) # "none"
          THEN Raise(c1, is_glst_error_response(c1.out, lobby_id))
          ELSE c1
          : c1 \in {get_servers(c, lobby_id)} })

(* RomeTheaterClient.get_gdat *)
rome_get_gdat(c, kwargs) ==
    The({ IF ~Ok(c1) THEN c1
          ELSE IF is_gdat_error_response(c1.out[1], kwargs) # "none"
          THEN Raise(c1, is_gdat_error_response(c1.out[1], kwargs))
          ELSE c1
          : c1 \in {get_gdat(c, kwargs)} })

(* the lobbies of the servers the Rome server lists: the one asked for and *)
(* another one                                                             *)
RomeLids == {257, 300}

RomeServer(tid, lid) == Packet("GDAT", "ok", 0, ("TID" :> tid) @@ ("LID" :> lid))

(* the GDAT packet of a server's details, 0 standing for a packet without  *)
(* the LID line                                                            *)
RomeGdat(tid, n, lid) ==
    IF lid = 0 THEN TheaterHeader("GDAT", "ok", tid, "AP", n)
    ELSE Packet("GDAT", "ok", 0, ("TID" :> tid) @@ ("AP" :> n) @@ ("LID" :> lid))

RomeResponses(tid) ==
    LET Prompts == {<< >>, <<TheaterPrompt>>}
        Counts == 0..MaxCount
        Servers == UNION { [1..k -> {RomeServer(tid, l) : l \in RomeLids}] : k \in Counts }
    IN  {<<TheaterHeader("GLST", "ok", tid, "NUM-GAMES", n)>> \o pg \o s :
           n \in Counts, pg \in Prompts, s \in Servers}
   \cup {<<RomeGdat(tid, n, l), TheaterEntry("GDET", tid, 0)>> \o pg
           \o ([i \in 1..k |-> TheaterEntry("PDAT", tid, i)] \o << >>) :
           n \in Counts, k \in Counts, l \in RomeLids \cup {0}, pg \in Prompts}
   \cup {<<RomeGdat(tid, n, l)>> : n \in Counts, l \in RomeLids \cup {0}}
   \cup {<<Packet("GLST", "nrom", 0, [TID |-> tid])>>,
         <<Packet("GDAT", "ngam", 0, [TID |-> tid])>>,
         <<Packet("GDAT", "ntfn", 0, [TID |-> tid])>>}

RomeSend ==
    /\ Idle
    /\ served < MaxResponses
    /\ inbox = << >>
    /\ \E r \in RomeResponses(transaction_id + 1) : inbox' = inbox \o r
    /\ served' = served + 1
    /\ call' = NoCall
    /\ UNCHANGED <<tasks, family, track_steps, transaction_id, completed_steps,
                   is_connected, maxSent, minted>>

RomeGetServers ==
    /\ Idle
    /\ \E sf \in SendFails : Finish("get_servers", rome_get_servers(Start(sf), 257))

RomeGetGdat ==
    /\ Idle
    /\ \E sf \in SendFails, kwargs \in GdatQueries :
          FinishArgs("get_gdat", kwargs, rome_get_gdat(Start(sf), kwargs))

RomeNext ==
    \/ Return
    \/ RomeSend
    \/ RomeGetServers
    \/ RomeGetGdat

SpecRome == TheaterInit /\ [][RomeNext]_vars

(* the packets of a transaction in a queue *)
TransactionPackets(queue, tid) ==
    SelectSeq(queue, LAMBDA p : p # TheaterPrompt /\ get_tid("theater", p) = tid)

NotFoundErrors == {"LobbyNotFoundError", "ServerNotFoundError", "PlayerNotFoundError"}

(* C40: when the header packet carries no error tag, the Rome client       *)
(* raises a not-found error only after the whole response was read: the    *)
(* GLST packet and all NUM-GAMES GDAT packets for get_servers, the GDAT    *)
(* packet, the GDET packet and all AP PDAT packets for get_gdat.  The      *)
(* error is LobbyNotFound exactly when a server read has another LID than  *)
(* the lobby asked for, and ServerNotFound or PlayerNotFound as the GDAT   *)
(* packet read first decides; a response of the announced size leaves no   *)
(* packet of the transaction unread.                                       *)
C40_RomeErrorsAfterWholeResponse ==
    (/\ call.op \in {"get_servers", "get_gdat"}
     /\ ReturnedPackets(call.io) # << >>
     /\ is_error_response(ReturnedPackets(call.io)[1]) = "none") =>
      LET tid == call.pre.tid + 1
          ret == ReturnedPackets(call.io)
          whole == IF call.op = "get_servers"
                   THEN 1 + get_int(ret[1].body, "NUM-GAMES", 0)
                   ELSE 2 + get_int(ret[1].body, "AP", 0)
          found == IF call.op = "get_servers"
                   THEN is_glst_error_response(SubSeq(ret, 2, Len(ret)), 257)
                   ELSE is_gdat_error_response(ret[1], call.args)
      IN /\ call.err \in NotFoundErrors =>
              /\ Len(ret) = whole
              /\ ret = SubSeq(TransactionPackets(call.pre.inbox, tid), 1, whole)
              /\ call.err = found
              /\ Len(TransactionPackets(call.pre.inbox, tid)) = whole => TransactionPackets(inbox, tid) = << >>
         /\ Len(ret) = whole => call.err = found
         /\ Len(ret) < whole => call.err \in {"TimeoutError", "ConnectionError"}

(* get_servers read the GLST packet and both GDAT packets it announced,    *)
(* the second of another lobby, and raised LobbyNotFound with nothing left *)
C40_Witness ==
    /\ call.op = "get_servers"
    /\ call.err = "LobbyNotFoundError"
    /\ Len(ReturnedPackets(call.io)) = 3
    /\ ReturnedPackets(call.io)[1].disc = "ok"
    /\ ReturnedPackets(call.io)[2].body["LID"] = 257
    /\ ReturnedPackets(call.io)[3].body["LID"] = 300
    /\ inbox = << >>

====
